---- MODULE Spec2Model ----
(***************************************************************************)
(* Model of the MasterControl extraction pipeline:                         *)
(*   - data_fetch_system/bulk_fetch.py        (variant "bulk")             *)
(*   - data_fetch_system/incremental_fetch.py (variant "incr")             *)
(*   - mastercontrol_etl/bulk_load.py         (variant "legacy")           *)
(* together with the checkpoint store, the status ledger and the paginated *)
(* fetcher of data_fetch_system/api_client.py.                             *)
(*                                                                         *)
(* Spec       : successive runs of the extraction drivers over the shared  *)
(*              checkpoint file, ledger file and artifact directory, with  *)
(*              process termination possible between any two steps.        *)
(* SpecRun    : one run of a driver, started over any checkpoint file.     *)
(* SpecRecord : one process_record call over every shape of lookup result. *)
(* SpecFetch  : one fetch_paginated_data call, down to single HTTP         *)
(*              attempts; SpecFetchFair adds that the call keeps running.  *)
(***************************************************************************)
EXTENDS Integers, Sequences, FiniteSets, TLC

VARIABLES
    \* ---- durable state (files) ----
    ckptFile,       \* checkpoint.json: [kind: "missing"|"corrupt"|"ok", id]
    ledgerFile,     \* pipeline_status_log.csv: sequence of status entries
    artifacts,      \* <lot_number>.csv of the driver's output directory:
                    \* lot number -> artifact content or NoFile
    \* ---- the running process ----
    pc,             \* position of the driver
    profile,        \* "resume": successive runs; "run": one run; "record": one
                    \* call, rich data; "fetch": the paginated fetcher alone
    variant,        \* which driver script is running
    runs,           \* number of driver processes started so far
    start_arg,      \* --start, as <<>> (absent) or <<n>>
    start_id, end_id, batch_size,
    id_list,        \* incremental driver: the ids of the window
    current_batch_start,   \* bulk: first id of the batch; incr: index i
    current_batch_end,     \* the id handed to save_checkpoint
    batch_ids,      \* ids of the current batch not yet processed
    production_record_id,
    tracking_df,    \* StatusTracker.tracking_df (in-memory ledger)
    lot_number,     \* local of process_record
    record_df,      \* number of current capture rows fetched
    lot_summary,    \* filtered_data_capture_df: rows of the lookup in use
    structure,      \* result of fetch_production_structure_metadata
    merged_df,      \* result of _merge_data
    \* ---- observation (history) ----
    calls,          \* ids process_record was called with in this run
    done_ids,       \* ids whose process_record call has returned in this run
    reqs,           \* endpoints requested by the current process_record call
    had_success,    \* ledger held a Success entry for the id when its call began
    had_entry,      \* ledger held any entry for the id when its call began
    len_at_call,    \* length of the in-memory ledger when the call began
    from_capture,   \* <<rows>> once the capture fetch has returned to the call
    from_primary,   \* <<rows>> once the primary lookup has returned to the call
    from_secondary, \* rows the secondary lookup returned to the current call
    escaped,        \* an exception left process_record
    same_range,     \* this run covers the same ids as the run before it
    \* ---- paginated fetcher (SpecFetch) ----
    fpc,            \* position inside fetch_paginated_data / perform_get_request
    pages,          \* the source: the envelope it answers for each page index
    page, all_data, last_page,   \* locals of fetch_paginated_data
    retry,          \* loop variable of perform_get_request
    response,       \* what perform_get_request returned last
    result,         \* what fetch_paginated_data returned
    page_calls,     \* page indexes perform_get_request was called for
    attempts_log,   \* outcomes of the HTTP attempts of the current call
    slept,          \* time.sleep(delay) calls of the current call
    \* the loader
    lpc,            \* position of the loader process
    process_type,   \* 'initial_load' or 'incremental_load'
    dirs,           \* raw_data and new_data: file name -> content
    processed_dir,  \* file names copied to processed_data and archive
    conn,           \* the database connection: open, broken or closed
    db,             \* the committed tables
    tx,             \* the tables as the open transaction sees them
    csv_files,      \* files of the scan still to process
    file_path,      \* the file process_csv_file was called with
    csv_df,         \* the frame read from it
    lot_info,       \* what extract_lot_info returned
    record_count,   \* what process_csv_file returned
    attempt,        \* number of process_csv_file calls so far
    loads,          \* number of loader runs so far
    db_before,      \* the committed tables when the current call began
    raised,         \* a statement of the try block raised in the current call
    artifact_log,   \* content of the file of each process_csv_file call so far
    \* _merge_data
    mpc,            \* position inside the merge of one record
    merge_variant,  \* "bulk" (bulk_fetch.py) or "incr" (incremental_fetch.py)
    capture_df,     \* record_df: the capture rows of the record
    unit_df,        \* the three structure frames
    operation_df,
    phase_df,
    joined_df,      \* merged_df after the structure merges
    final_df,       \* what _merge_data returns
    artifact_csv,   \* the rows of the written file
    record_status,  \* status logged for the record
    \* reformat_datetime
    tpc,            \* position of the reformat_datetime call
    date_str,       \* its argument
    formatted,      \* what it returned
    \* the incremental driver's main()
    wpc,            \* position inside main() of incremental_fetch.py
    window_csv,     \* six_hour_windows.csv: <<>> when absent, else <<rows>>
    window,         \* what append_next_six_hour_window returned: <<>> for None
    record_ids,     \* what streamload_and_process_records returned
    source,         \* how the record-id source answered in the current run
    now_hour,       \* the clock: whole hours after 2025-03-10 00:00:00 UTC
    wruns,          \* number of main() runs so far
    fetched         \* windows whose record-id fetch was issued, with the answer

pvars == <<ckptFile, ledgerFile, artifacts, pc, profile, variant, runs, start_arg,
           start_id, end_id, batch_size, id_list, current_batch_start,
           current_batch_end, batch_ids, production_record_id, tracking_df,
           lot_number, record_df, lot_summary, structure, merged_df,
           calls, done_ids, reqs, had_success, had_entry, len_at_call,
           from_capture, from_primary, from_secondary, escaped, same_range>>

fvars == <<fpc, pages, page, all_data, last_page, retry, response, result,
           page_calls, attempts_log, slept>>

lvars == <<lpc, process_type, dirs, processed_dir, conn, db, tx, csv_files,
           file_path, csv_df, lot_info, record_count, attempt, loads, db_before,
           raised, artifact_log>>

mvars == <<mpc, merge_variant, capture_df, unit_df, operation_df, phase_df,
           joined_df, final_df, artifact_csv, record_status>>

tvars == <<tpc, date_str, formatted>>

wvars == <<wpc, window_csv, window, record_ids, source, now_hour, wruns, fetched>>

vars == <<pvars, fvars, lvars, mvars, tvars, wvars>>

----------------------------------------------------------------------------
\* Bounds of the model

MaxId == 1          \* record identifiers are 0..MaxId
MaxBatch == 2       \* --batch_size ranges over 1..MaxBatch
MaxRuns == 2        \* driver processes started in one behaviour
MaxWindowRuns == 3  \* runs of incremental_fetch.py in one behaviour
MaxHour == 20       \* the latest hour at which such a run starts
MaxRows == 2        \* rows a lookup endpoint returns (profile "record")

Ids == 0..MaxId
Min(a, b) == IF a <= b THEN a ELSE b
Range(a, b) == [k \in 1..(b - a + 1) |-> a + k - 1]
SeqsUpTo(S, n) == UNION {[1..k -> S] : k \in 0..n}
Last(s) == s[Len(s)]

----------------------------------------------------------------------------
\* Configuration (config.py)

DEFAULT_END_ID == MaxId
BATCH_SIZE == MaxBatch

----------------------------------------------------------------------------
\* Checkpoint store (checkpoint_manager.py)

NoCheckpoint == [kind |-> "missing", id |-> 0]
CorruptCheckpoint == [kind |-> "corrupt", id |-> 0]
Checkpoint(last_id) == [kind |-> "ok", id |-> last_id]

default_checkpoint == -1

\* load_checkpoint()['last_processed_id']
load_checkpoint(file) ==
    IF file.kind = "ok" THEN file.id ELSE default_checkpoint

\* The files save_checkpoint(last_id) can leave behind: written; open() failed
\* (file untouched); open() truncated the file and json.dump failed.
save_checkpoint(file, last_id) ==
    {Checkpoint(last_id), file, CorruptCheckpoint}

----------------------------------------------------------------------------
\* Status ledger (status_tracker.py)

NoLot == "None"
Entry(id, lot, status, reason) ==
    [id |-> id, lot |-> lot, status |-> status, reason |-> reason]

EntriesOf(df, id) == SelectSeq(df, LAMBDA e : e.id = id)

\* StatusTracker.is_already_processed / the check at the head of pipeline()
is_already_processed(df, id) ==
    LET existing_entry == EntriesOf(df, id)
    IN  IF existing_entry # <<>>
        THEN existing_entry[1].status = "Success"
        ELSE FALSE

\* StatusTracker.log_status: the in-memory ledger after the append
log_status(df, id, lot, status, reason) ==
    Append(df, Entry(id, lot, status, reason))

\* StatusTracker.save_tracking_df: the files a save of df can leave behind
\* (written, or the error was logged and the file is as before)
save_tracking_df(file, df) == {df, file}

\* StatusTracker.load_tracking_df: the file, or an empty frame when the file
\* exists but cannot be read
load_tracking_df(file) ==
    IF file = <<>> THEN {<<>>} ELSE {file, <<>>}

HasSuccess(df, id) == \E k \in 1..Len(df) : df[k].id = id /\ df[k].status = "Success"
HasEntry(df, id) == \E k \in 1..Len(df) : df[k].id = id

----------------------------------------------------------------------------
\* Remote data (data_processor.py).  Text values are sequences of tokens, " "
\* being a blank, so that str.strip() is computed and not assumed.

Blank == " "
RECURSIVE LStrip(_)
LStrip(s) == IF s # <<>> /\ Head(s) = Blank THEN LStrip(Tail(s)) ELSE s
RECURSIVE RStrip(_)
RStrip(s) ==
    IF s # <<>> /\ s[Len(s)] = Blank THEN RStrip(SubSeq(s, 1, Len(s) - 1)) ELSE s
\* x.str.strip()
Strip(s) == RStrip(LStrip(s))

\* Lot numbers fetch_production_record_data can derive; "0" is the value it
\* returns when no BATCH_RECORD_CREATION row exists.
CaptureLots == {"L1", "0"}
LotsOf(prof) == IF prof = "record" THEN CaptureLots ELSE {"L1"}

\* Rows of the primary lookup (batch-records/production-records-list)
BatchRows ==
    { [lotNumber |-> <<"L1">>, productId |-> <<"P1">>,
       productName |-> <<"N1", Blank>>, status |-> <<"COMPLETE">>] }

BatchRowsOf(prof) == SeqsUpTo(BatchRows, IF prof = "record" THEN MaxRows ELSE 1)

\* Rows of the secondary lookup (data-captures?lotNumbers=) before renaming
CaptureByLotRow1 ==
    [lotNumber |-> <<"L1">>, productId |-> <<"P2">>,
     masterTemplateName |-> <<Blank, "T2">>,
     productionRecordStatus |-> <<"IN_PROGRESS">>]
CaptureByLotRow2 ==
    [lotNumber |-> <<"L9">>, productId |-> <<"P3">>,
     masterTemplateName |-> <<"T3">>,
     productionRecordStatus |-> <<"RELEASED">>]
\* the lot of BatchRows as the secondary endpoint reports it
CaptureByLotRow0 ==
    [lotNumber |-> <<"L1">>, productId |-> <<"P1">>,
     masterTemplateName |-> <<"N1", Blank>>,
     productionRecordStatus |-> <<"COMPLETE">>]
CaptureByLotRows == {CaptureByLotRow1, CaptureByLotRow2}
CaptureByLotRowsOf(prof) ==
    IF prof = "record" THEN SeqsUpTo(CaptureByLotRows, MaxRows)
    ELSE SeqsUpTo({CaptureByLotRow0}, 1)
\* Rows of the data-captures endpoint (data-captures?productionRecordId=):
\* what matters of a row to process_record is its current flag
CaptureDataRow(flag) == [current |-> flag]
CaptureDataOf(prof) ==
    IF prof = "record"
    THEN SeqsUpTo({CaptureDataRow(TRUE), CaptureDataRow(FALSE)}, MaxRows)
    ELSE {<<>>, <<CaptureDataRow(TRUE)>>}

\* A fetch that keeps the rows that are not current.
fetch_production_record_data_unfiltered(record_data) == record_data

\* fetch_production_record_data 58-68: no rows, or the rows with
\* current == True
fetch_production_record_data(record_data) ==
    SelectSeq(record_data, LAMBDA r : r.current)
\* Results of fetch_production_structure_metadata: the three tables, or three
\* empty frames when the request ran out of retries
StructuresOf(prof) == IF prof = "record" THEN {"tables", "empty"} ELSE {"tables"}

\* fetch_data_capture_by_lot: rename masterTemplateName -> productName and
\* productionRecordStatus -> status, keep the batch_record columns
RenameRow(r) ==
    [lotNumber |-> r.lotNumber, productId |-> r.productId,
     productName |-> r.masterTemplateName, status |-> r.productionRecordStatus]
fetch_data_capture_by_lot(raw) == [k \in 1..Len(raw) |-> RenameRow(raw[k])]

\* A lot summary taken from the last row instead of unique()[0].
LotSummary_last(data_capture_df) ==
    [MasterTemplateName |-> data_capture_df[Len(data_capture_df)].productName,
     LotNumber |-> data_capture_df[Len(data_capture_df)].lotNumber,
     ProductID |-> data_capture_df[Len(data_capture_df)].productId,
     ProductionRecordStatus |-> data_capture_df[Len(data_capture_df)].status]

\* _merge_data, lot summary part: the first unique value of each column is
\* broadcast to every row; text columns are stripped on the way out.
LotSummary(data_capture_df) ==
    [MasterTemplateName |-> data_capture_df[1].productName,
     LotNumber |-> data_capture_df[1].lotNumber,
     ProductID |-> data_capture_df[1].productId,
     ProductionRecordStatus |-> data_capture_df[1].status]

StripSummary(s) ==
    [MasterTemplateName |-> Strip(s.MasterTemplateName),
     LotNumber |-> Strip(s.LotNumber),
     ProductID |-> Strip(s.ProductID),
     ProductionRecordStatus |-> Strip(s.ProductionRecordStatus)]

merge_data(id, n_rows, data_capture_df) ==
    [by |-> id, rows |-> n_rows, summary |-> StripSummary(LotSummary(data_capture_df))]

EmptySummary ==
    [MasterTemplateName |-> <<>>, LotNumber |-> <<>>, ProductID |-> <<>>,
     ProductionRecordStatus |-> <<>>]
NoFile == [by |-> -1, rows |-> 0, summary |-> EmptySummary]
NoFrame == NoFile

\* Reasons written to the ledger
EmptyReason == "fetch_production_record_data returned empty"
BothEmptyReason(v) ==
    IF v = "incr" THEN "Both API calls returned empty"
    ELSE "Both api_1 calls returned empty"
ExcText == "str(e)"

----------------------------------------------------------------------------
\* The extraction drivers

files == <<ckptFile, ledgerFile, artifacts>>
cfg == <<profile, variant, runs, start_arg, start_id, end_id, batch_size,
         id_list, same_range>>
loopv == <<current_batch_start, current_batch_end>>
locals == <<lot_number, record_df, lot_summary, structure, merged_df,
            from_capture, from_primary, from_secondary>>
callhist == <<production_record_id, calls, had_success, had_entry, len_at_call>>

Variants == {"bulk", "legacy", "incr"}
RangeVariants == {"bulk", "legacy"}
StartArgs == {<<>>} \cup {<<n>> : n \in -1..MaxId}
EndArgs == {<<>>} \cup {<<n>> : n \in Ids}
BatchSizes == 1..MaxBatch
\* list(set of productionRecordId): any order of any non-empty set of ids
IdLists ==
    {s \in SeqsUpTo(Ids, MaxId + 1) :
        s # <<>> /\ \A i, j \in 1..Len(s) : i # j => s[i] # s[j]}

\* Profile "record" runs one driver over one identifier, profile "run" one
\* driver over any range.
RunsOf(prof) == IF prof \in {"record", "run", "batch"} THEN 1 ELSE MaxRuns
StartArgsOf(prof) == IF prof = "record" THEN {<<n>> : n \in Ids} ELSE StartArgs
EndArgsOf(prof, sa) == IF prof = "record" THEN {sa} ELSE EndArgs
\* --batch_size is type=int: profile "batch" also passes 0
BatchSizesOf(prof) ==
    IF prof = "record" THEN {1}
    ELSE IF prof = "batch" THEN 0..MaxBatch
    ELSE BatchSizes
IdListsOf(prof) == IF prof = "record" THEN {<<n>> : n \in Ids} ELSE IdLists

\* bulk_fetch.py and incremental_fetch.py share config.py, hence the files;
\* bulk_load.py has its own defaults and is followed by runs of itself.
FamilyOf(at, v) ==
    IF at = "idle" THEN Variants
    ELSE IF v = "legacy" THEN {"legacy"} ELSE {"bulk", "incr"}

StoppedPcs == {"idle", "done", "crashed", "aborted"}
RecordPcs == {"fetch_record", "primary", "structure", "secondary", "merge",
              "write", "log_success"}
RunningPcs == {"loop", "batch"} \cup RecordPcs

\* The resume point without the clamp of "if start_id <= 0: start_id = 0".
StartId_unclamped(arg, last_processed_id) ==
    IF arg # <<>> THEN arg[1] ELSE last_processed_id + 1

\* main(): the resume point
StartId(arg, last_processed_id) ==
    LET s == IF arg # <<>> THEN arg[1] ELSE last_processed_id + 1
    IN  IF s <= 0 THEN 0 ELSE s

EndId(arg) == IF arg # <<>> THEN arg[1] ELSE DEFAULT_END_ID

\* run(): last id of the batch starting at first
BatchEnd(first, size, last) == Min(first + size - 1, last)

\* run() of the incremental driver: id_list[i:i + batch_size], i 0-based
Slice(list, i, size) == SubSeq(list, i + 1, Min(i + size, Len(list)))

ResetLocals ==
    /\ lot_number' = NoLot
    /\ record_df' = 0
    /\ lot_summary' = <<>>
    /\ structure' = "none"
    /\ merged_df' = NoFrame
    /\ from_capture' = <<>>
    /\ from_primary' = <<>>
    /\ from_secondary' = <<>>

ResetRun ==
    /\ calls' = <<>>
    /\ done_ids' = {}
    /\ reqs' = <<>>
    /\ had_success' = FALSE
    /\ had_entry' = FALSE
    /\ len_at_call' = 0
    /\ escaped' = FALSE
    /\ production_record_id' = -1
    /\ batch_ids' = <<>>
    /\ current_batch_end' = -1
    /\ ResetLocals

\* bulk_fetch.main / bulk_load.main up to the while loop
StartRange ==
    /\ pc \in StoppedPcs
    /\ runs < RunsOf(profile)
    /\ \E v \in FamilyOf(pc, variant) \cap RangeVariants, sa \in StartArgsOf(profile),
          bs \in BatchSizesOf(profile), df \in load_tracking_df(ledgerFile) :
       \E ea \in EndArgsOf(profile, sa) :
        /\ variant' = v
        /\ start_arg' = sa
        /\ start_id' = StartId(sa, load_checkpoint(ckptFile))
        /\ end_id' = EndId(ea)
        /\ batch_size' = bs
        /\ tracking_df' = df
        /\ current_batch_start' = StartId(sa, load_checkpoint(ckptFile))
        /\ same_range' = /\ pc # "idle"
                         /\ variant \in RangeVariants
                         /\ start_id = StartId(sa, load_checkpoint(ckptFile))
                         /\ end_id = EndId(ea)
    /\ id_list' = <<>>
    /\ runs' = runs + 1
    /\ pc' = "loop"
    /\ ResetRun
    /\ UNCHANGED <<files, profile>>

\* incremental_fetch.main from load_checkpoint on, given the ids of the window
StartIncremental ==
    /\ pc \in StoppedPcs
    /\ "incr" \in FamilyOf(pc, variant)
    /\ runs < RunsOf(profile)
    /\ \E ids \in IdListsOf(profile), df \in load_tracking_df(ledgerFile) :
        /\ id_list' = ids
        /\ tracking_df' = df
    /\ variant' = "incr"
    /\ start_arg' = <<>>
    /\ start_id' = 0
    /\ end_id' = 0
    /\ batch_size' = IF profile = "record" THEN 1 ELSE BATCH_SIZE
    /\ current_batch_start' = 0
    /\ same_range' = FALSE
    /\ runs' = runs + 1
    /\ pc' = "loop"
    /\ ResetRun
    /\ UNCHANGED <<files, profile>>

\* run(): head of the batch loop
BatchBegin ==
    /\ pc = "loop"
    /\ IF variant = "incr"
       THEN /\ current_batch_start < Len(id_list)
            /\ batch_ids' = Slice(id_list, current_batch_start, batch_size)
            /\ current_batch_end' = Last(Slice(id_list, current_batch_start, batch_size))
       ELSE /\ current_batch_start <= end_id
            /\ batch_ids' = Range(current_batch_start,
                                  BatchEnd(current_batch_start, batch_size, end_id))
            /\ current_batch_end' = BatchEnd(current_batch_start, batch_size, end_id)
    /\ pc' = "batch"
    /\ UNCHANGED <<files, cfg, current_batch_start, locals, callhist,
                   tracking_df, done_ids, reqs, escaped>>

\* run(): the loop condition fails, "Processing complete"
RunComplete ==
    /\ pc = "loop"
    /\ IF variant = "incr"
       THEN current_batch_start >= Len(id_list)
       ELSE current_batch_start > end_id
    /\ pc' = "done"
    /\ UNCHANGED <<files, cfg, loopv, locals, callhist, batch_ids,
                   tracking_df, done_ids, reqs, escaped>>

\* run(): save_checkpoint after the batch, then advance
SaveCheckpoint ==
    /\ pc = "batch"
    /\ batch_ids = <<>>
    /\ ckptFile' \in save_checkpoint(ckptFile, current_batch_end)
    /\ current_batch_start' = IF variant = "incr"
                              THEN current_batch_start + batch_size
                              ELSE current_batch_end + 1
    /\ pc' = "loop"
    /\ UNCHANGED <<ledgerFile, artifacts, cfg, current_batch_end, locals,
                   callhist, batch_ids, tracking_df, done_ids, reqs, escaped>>

----------------------------------------------------------------------------
\* process_record / pipeline, one step per remote call or file write

RecordFrame == UNCHANGED <<ckptFile, cfg, loopv, callhist>>

\* process_record returns to the loop of run()
Return ==
    /\ pc' = "batch"
    /\ batch_ids' = Tail(batch_ids)
    /\ done_ids' = done_ids \cup {production_record_id}
    /\ escaped' = escaped

\* an exception leaves pipeline() and ends the process
Escape ==
    /\ pc' = "aborted"
    /\ batch_ids' = batch_ids
    /\ done_ids' = done_ids
    /\ escaped' = TRUE

\* An except clause that re-raises instead of recording the failure.
Handler_reraise(df) ==
    /\ tracking_df' = df
    /\ ledgerFile' = ledgerFile
    /\ Escape

\* The except clause: log_status(id, None, "Fail", str(e)).  In bulk_load.py the
\* handler's own to_csv is unguarded.
Handler(df) ==
    LET df1 == log_status(df, production_record_id, NoLot, "Fail", ExcText)
    IN  /\ tracking_df' = df1
        /\ IF variant = "legacy"
           THEN \/ ledgerFile' = df1 /\ Return
                \/ ledgerFile' = ledgerFile /\ Escape
           ELSE ledgerFile' \in save_tracking_df(ledgerFile, df1) /\ Return

\* A return from the try body that records nothing.
Finish_silent(lot, status, reason) ==
    /\ UNCHANGED <<tracking_df, ledgerFile>>
    /\ Return

\* A log_status call in the try body followed by return.  In bulk_load.py a
\* failing to_csv raises into the except clause.
Finish(lot, status, reason) ==
    LET df1 == log_status(tracking_df, production_record_id, lot, status, reason)
    IN  IF variant = "legacy"
        THEN \/ tracking_df' = df1 /\ ledgerFile' = df1 /\ Return
             \/ Handler(df1)
        ELSE /\ tracking_df' = df1
             /\ ledgerFile' \in save_tracking_df(ledgerFile, df1)
             /\ Return

\* The step goes on inside the try body: nothing is logged, nothing returns.
Continue == UNCHANGED <<ledgerFile, tracking_df, batch_ids, done_ids, escaped>>

\* A driver that consults the secondary lookup whatever the primary returned.
AfterPrimary_always(v, rows) == "secondary"

\* Where process_record goes after the primary lookup returned rows: the
\* incremental driver falls back at once, the others fetch the structure first.
AfterPrimary(v, rows) ==
    IF v = "incr" /\ rows = <<>> THEN "secondary" ELSE "structure"

\* A driver that logs Success right after the structure fetch, without merge
\* and without writing the file.
AfterStructure_unwritten(v, summary) == "log_success"

\* Where process_record goes after the structure fetch returned.
AfterStructure(v, summary) ==
    IF v # "incr" /\ summary = <<>> THEN "secondary" ELSE "merge"

\* for loop of run(): the next id of the batch enters process_record
RecordBegin ==
    /\ pc = "batch"
    /\ batch_ids # <<>>
    /\ production_record_id' = Head(batch_ids)
    /\ calls' = Append(calls, Head(batch_ids))
    /\ had_success' = HasSuccess(tracking_df, Head(batch_ids))
    /\ had_entry' = HasEntry(tracking_df, Head(batch_ids))
    /\ len_at_call' = Len(tracking_df)
    /\ reqs' = <<>>
    /\ ResetLocals
    /\ IF variant = "legacy" /\ is_already_processed(tracking_df, Head(batch_ids))
       THEN \* "Skipping already successfully processed ID"
            /\ pc' = "batch"
            /\ batch_ids' = Tail(batch_ids)
            /\ done_ids' = done_ids \cup {Head(batch_ids)}
       ELSE /\ pc' = "fetch_record"
            /\ UNCHANGED <<batch_ids, done_ids>>
    /\ UNCHANGED <<files, cfg, loopv, tracking_df, escaped>>

\* fetch_production_record_data: the rows of the data-captures endpoint; none
\* when the source has none or the page request ran out of retries
FetchProductionRecordData ==
    /\ pc = "fetch_record"
    /\ reqs' = Append(reqs, "data_captures")
    /\ \/ /\ Handler(tracking_df)
          /\ UNCHANGED <<lot_number, record_df, from_capture>>
       \/ \E record_data \in CaptureDataOf(profile) :
            LET filtered_record_data_df == fetch_production_record_data(record_data)
            IN  /\ from_capture' = <<record_data>>
                /\ IF Len(filtered_record_data_df) = 0
                   THEN /\ Finish(NoLot, "Fail", EmptyReason)
                        /\ UNCHANGED <<lot_number, record_df>>
                   ELSE \E lot \in LotsOf(profile) :
                            /\ lot_number' = lot
                            /\ record_df' = Len(filtered_record_data_df)
                            /\ pc' = "primary"
                            /\ Continue
    /\ UNCHANGED <<artifacts, lot_summary, structure, merged_df, from_primary,
                   from_secondary>>
    /\ RecordFrame

\* fetch_batch_records_by_lot (primary lookup)
FetchBatchRecordsByLot ==
    /\ pc = "primary"
    /\ reqs' = Append(reqs, "batch_records")
    /\ \/ /\ Handler(tracking_df)
          /\ UNCHANGED <<lot_summary, from_primary>>
       \/ \E rows \in BatchRowsOf(profile) :
             /\ lot_summary' = rows
             /\ from_primary' = <<rows>>
             /\ pc' = AfterPrimary(variant, rows)
             /\ Continue
    /\ UNCHANGED <<artifacts, lot_number, record_df, from_capture, structure, merged_df,
                   from_secondary>>
    /\ RecordFrame

\* fetch_production_structure_metadata: "tables" when the document was read,
\* "empty" (three empty frames) when the request ran out of retries
FetchStructure ==
    /\ pc = "structure"
    /\ reqs' = Append(reqs, "structures")
    /\ \/ /\ Handler(tracking_df)
          /\ UNCHANGED structure
       \/ \E st \in StructuresOf(profile) :
             /\ structure' = st
             /\ pc' = AfterStructure(variant, lot_summary)
             /\ Continue
    /\ UNCHANGED <<artifacts, lot_number, record_df, from_capture, lot_summary, merged_df,
                   from_primary, from_secondary>>
    /\ RecordFrame

\* fetch_data_capture_by_lot (secondary lookup)
FetchDataCaptureByLot ==
    /\ pc = "secondary"
    /\ reqs' = Append(reqs, "data_captures_by_lot")
    /\ \/ /\ Handler(tracking_df)
          /\ UNCHANGED <<lot_summary, from_secondary>>
       \/ /\ Finish(lot_number, "Fail", BothEmptyReason(variant))
          /\ UNCHANGED <<lot_summary, from_secondary>>
       \/ \E raw \in CaptureByLotRowsOf(profile) :
             /\ raw # <<>>
             /\ from_secondary' = raw
             /\ lot_summary' = fetch_data_capture_by_lot(raw)
             /\ pc' = IF variant = "incr" THEN "structure" ELSE "merge"
             /\ Continue
    /\ UNCHANGED <<artifacts, lot_number, record_df, from_capture, structure, merged_df,
                   from_primary>>
    /\ RecordFrame

\* _merge_data: a KeyError (empty structure frames) or another error of the
\* column operations reaches the except clause of process_record
MergeData ==
    /\ pc = "merge"
    /\ \/ /\ Handler(tracking_df)
          /\ UNCHANGED merged_df
       \/ /\ structure = "tables"
          /\ merged_df' = merge_data(production_record_id, record_df, lot_summary)
          /\ pc' = "write"
          /\ Continue
    /\ UNCHANGED <<artifacts, lot_number, record_df, from_capture, lot_summary, structure,
                   from_primary, from_secondary, reqs>>
    /\ RecordFrame

\* A write that keeps the file a lot already has
WriteArtifact_keeps ==
    /\ pc = "write"
    /\ \/ /\ Handler(tracking_df)
          /\ UNCHANGED artifacts
       \/ /\ artifacts' = IF artifacts[lot_number] = NoFile
                          THEN [artifacts EXCEPT ![lot_number] = merged_df]
                          ELSE artifacts
          /\ pc' = "log_success"
          /\ Continue
    /\ UNCHANGED <<locals, reqs>>
    /\ RecordFrame

\* merged_df.to_csv(<lot_number>.csv)
WriteArtifact ==
    /\ pc = "write"
    /\ \/ /\ Handler(tracking_df)
          /\ UNCHANGED artifacts
       \/ /\ artifacts' = [artifacts EXCEPT ![lot_number] = merged_df]
          /\ pc' = "log_success"
          /\ Continue
    /\ UNCHANGED <<locals, reqs>>
    /\ RecordFrame

\* log_status(id, lot_number, "Success")
LogSuccess ==
    /\ pc = "log_success"
    /\ Finish(lot_number, "Success", "")
    /\ UNCHANGED <<artifacts, locals, reqs>>
    /\ RecordFrame

\* The process is terminated between two steps; memory is lost, files stay.
Terminate ==
    /\ pc \in RunningPcs
    /\ pc' = "crashed"
    /\ tracking_df' = <<>>
    /\ batch_ids' = <<>>
    /\ reqs' = <<>>
    /\ calls' = <<>>
    /\ production_record_id' = -1
    /\ had_success' = FALSE
    /\ had_entry' = FALSE
    /\ len_at_call' = 0
    /\ current_batch_start' = 0
    /\ current_batch_end' = -1
    /\ ResetLocals
    /\ UNCHANGED <<files, cfg, done_ids, escaped>>

----------------------------------------------------------------------------
\* Paginated fetcher (api_client.py)

MaxPages == 3       \* pages a source holds
MaxItems == 1       \* items of one page

\* perform_get_request(url, retries=3, delay=0.2)
Retries == 3

\* An envelope: its shape, the number of items of its content, its last flag.
\* The items of page p are <<p, 1>>, <<p, 2>>, ...
LastFlags == {"true", "false", "absent"}
Envelopes ==
    {[shape |-> "other", n |-> 0, last |-> "absent"]} \cup
    [shape : {"content", "pageResult"}, n : 0..MaxItems, last : LastFlags]
Content(p, env) == [j \in 1..env.n |-> <<p, j>>]

\* A loop that stops after every page, whatever its last flag.
LastOf_stop(env) == TRUE

\* data.get('last', True)
LastOf(env) == IF env.last = "absent" THEN TRUE ELSE env.last = "true"

\* An envelope after which fetch_paginated_data asks for no further page
Terminal(env) == env.shape = "other" \/ LastOf(env)

\* A source answers finitely many pages; its last page is terminal.
Sources ==
    {src \in SeqsUpTo(Envelopes, MaxPages) : src # <<>> /\ Terminal(Last(src))}

NoResponse == [shape |-> "none", n |-> 0, last |-> "absent"]

\* A retry loop that makes one attempt too many.
MoreAttempts_extra(done) == done <= Retries

\* for retry in range(retries)
MoreAttempts(done) == done < Retries

FetchFrame == UNCHANGED <<pages>>

\* while not last_page: ... response = self.perform_get_request(url)
PageLoop ==
    /\ fpc = "loop"
    /\ IF ~last_page
       THEN /\ fpc' = "get"
            /\ retry' = 0
            /\ attempts_log' = <<>>
            /\ slept' = 0
            /\ page_calls' = Append(page_calls, page)
            /\ UNCHANGED result
       ELSE /\ fpc' = "done"
            /\ result' = all_data
            /\ UNCHANGED <<retry, attempts_log, slept, page_calls>>
    /\ UNCHANGED <<page, all_data, last_page, response>>
    /\ FetchFrame

\* perform_get_request: requests.get + raise_for_status succeed
AttemptOk ==
    /\ fpc = "get"
    /\ MoreAttempts(retry)
    /\ attempts_log' = Append(attempts_log, "ok")
    /\ response' = pages[page + 1]
    /\ fpc' = "parse"
    /\ UNCHANGED <<page, all_data, last_page, retry, result, page_calls, slept>>
    /\ FetchFrame

\* perform_get_request: HTTPError, ConnectionError or Timeout; sleep, next retry
AttemptFails ==
    /\ fpc = "get"
    /\ MoreAttempts(retry)
    /\ attempts_log' = Append(attempts_log, "fail")
    /\ slept' = slept + 1
    /\ retry' = retry + 1
    /\ UNCHANGED <<fpc, page, all_data, last_page, response, result, page_calls>>
    /\ FetchFrame

\* A retry loop that also catches the other exceptions and tries again.
AttemptRaises_retried ==
    /\ fpc = "get"
    /\ MoreAttempts(retry)
    /\ attempts_log' = Append(attempts_log, "raise")
    /\ slept' = slept + 1
    /\ retry' = retry + 1
    /\ UNCHANGED <<fpc, page, all_data, last_page, response, result, page_calls>>
    /\ FetchFrame

\* perform_get_request: any other exception of requests.get propagates
AttemptRaises ==
    /\ fpc = "get"
    /\ MoreAttempts(retry)
    /\ attempts_log' = Append(attempts_log, "raise")
    /\ fpc' = "raised"
    /\ UNCHANGED <<page, all_data, last_page, retry, response, result,
                   page_calls, slept>>
    /\ FetchFrame

\* perform_get_request: the for loop is exhausted, return None;
\* fetch_paginated_data: if response is None: break; return all_data
GiveUp ==
    /\ fpc = "get"
    /\ ~MoreAttempts(retry)
    /\ response' = NoResponse
    /\ fpc' = "done"
    /\ result' = all_data
    /\ UNCHANGED <<page, all_data, last_page, retry, page_calls, attempts_log,
                   slept>>
    /\ FetchFrame

\* An envelope handling that returns nothing when it meets an envelope with
\* neither key.
ParsePage_drops ==
    /\ fpc = "parse"
    /\ \/ /\ fpc' = "raised"
          /\ UNCHANGED <<all_data, last_page, page, result>>
       \/ /\ response.shape \in {"content", "pageResult"}
          /\ all_data' = all_data \o Content(page, response)
          /\ last_page' = LastOf(response)
          /\ page' = page + 1
          /\ fpc' = "loop"
          /\ UNCHANGED result
       \/ /\ response.shape = "other"
          /\ fpc' = "done"
          /\ result' = <<>>
          /\ UNCHANGED <<all_data, last_page, page>>
    /\ UNCHANGED <<retry, response, page_calls, attempts_log, slept>>
    /\ FetchFrame

\* data = json.loads(response.text) and the envelope handling
ParsePage ==
    /\ fpc = "parse"
    /\ \/ \* the body is not JSON: json.loads raises
          /\ fpc' = "raised"
          /\ UNCHANGED <<all_data, last_page, page, result>>
       \/ /\ response.shape \in {"content", "pageResult"}
          /\ all_data' = all_data \o Content(page, response)
          /\ last_page' = LastOf(response)
          /\ page' = page + 1
          /\ fpc' = "loop"
          /\ UNCHANGED result
       \/ \* neither key: break
          /\ response.shape = "other"
          /\ fpc' = "done"
          /\ result' = all_data
          /\ UNCHANGED <<all_data, last_page, page>>
    /\ UNCHANGED <<retry, response, page_calls, attempts_log, slept>>
    /\ FetchFrame

FetchLocalsInit ==
    /\ page = 0 /\ all_data = <<>> /\ last_page = FALSE
    /\ retry = 0 /\ response = NoResponse /\ result = <<>>
    /\ page_calls = <<>> /\ attempts_log = <<>> /\ slept = 0

FetchIdle == fpc = "off" /\ pages = <<>> /\ FetchLocalsInit

----------------------------------------------------------------------------
\* process_record with its capture fetch carried out by fetch_paginated_data

\* The data-captures source of one record: pages of one row each
CallSources ==
    {src \in Sources :
        \A i \in 1..Len(src) : src[i].shape = "content" /\ src[i].n = 1}

FetchLocalsReset ==
    /\ page' = 0 /\ all_data' = <<>> /\ last_page' = FALSE
    /\ retry' = 0 /\ response' = NoResponse /\ result' = <<>>
    /\ page_calls' = <<>> /\ attempts_log' = <<>> /\ slept' = 0

\* fetch_production_record_data 53-56: the call of fetch_paginated_data
CallFetch ==
    /\ pc = "fetch_record"
    /\ fpc = "off"
    /\ reqs' = Append(reqs, "data_captures")
    /\ pages' \in CallSources
    /\ fpc' = "loop"
    /\ FetchLocalsReset
    /\ UNCHANGED <<files, cfg, loopv, locals, callhist, batch_ids, tracking_df,
                   done_ids, escaped, pc>>

\* An exception of the page request left fetch_paginated_data and
\* fetch_production_record_data: the except clause of process_record
CallRaised ==
    /\ pc = "fetch_record"
    /\ fpc = "raised"
    /\ Handler(tracking_df)
    /\ UNCHANGED <<artifacts, locals, reqs, fvars>>
    /\ RecordFrame

\* fetch_paginated_data returned its rows: fetch_production_record_data 58-95
\* and process_record 56-62
CallReturned ==
    /\ pc = "fetch_record"
    /\ fpc = "done"
    /\ \E flag \in BOOLEAN :
        LET record_data == [k \in 1..Len(result) |-> CaptureDataRow(flag)]
            filtered_record_data_df == fetch_production_record_data(record_data)
        IN  /\ from_capture' = <<record_data>>
            /\ IF Len(filtered_record_data_df) = 0
               THEN /\ Finish(NoLot, "Fail", EmptyReason)
                    /\ UNCHANGED <<lot_number, record_df>>
               ELSE \E lot \in LotsOf(profile) :
                        /\ lot_number' = lot
                        /\ record_df' = Len(filtered_record_data_df)
                        /\ pc' = "primary"
                        /\ Continue
    /\ fpc' = "off"
    /\ pages' = <<>>
    /\ FetchLocalsReset
    /\ UNCHANGED <<artifacts, lot_summary, structure, merged_df, from_primary,
                   from_secondary, reqs>>
    /\ RecordFrame

----------------------------------------------------------------------------
\* Loader (data_load_system): artifacts, tables and statements

MaxLoads == 2       \* loader runs in one behaviour

\* One artifact row: the lot summary columns and the hashed detail columns.
ArtifactRow(lot, p, label) ==
    [lot |-> lot, product_id |-> <<"id", p>>, product_name |-> <<"name", p>>,
     status |-> <<"status", p>>,
     label |-> label, description |-> "d", value |-> "v", time |-> "t"]

\* What a file of the scanned directory can hold: rows under a header, a
\* header alone, or bytes read_csv cannot parse.
Rows(rows) == [kind |-> "rows", rows |-> rows]
HeaderOnly == Rows(<<>>)
Unreadable == [kind |-> "bad", rows |-> <<>>]
Absent == [kind |-> "absent", rows |-> <<>>]

LoadFiles == {"L1.csv", "L2.csv"}
\* os.path.splitext(filename)[0]
StemOf(filename) == IF filename = "L1.csv" THEN "L1" ELSE "L2"

\* L1.csv: two rows with equal hashed columns, or two different rows whose
\* first row carries another product; L2.csv: a row of lot L2, or a row whose
\* Lot Number column names L1.
ContentsOf(filename) ==
    IF filename = "L1.csv"
    THEN {Absent, HeaderOnly,
          Rows(<<ArtifactRow("L1", "P1", "s1"), ArtifactRow("L1", "P1", "s1")>>),
          Rows(<<ArtifactRow("L1", "P2", "s2"), ArtifactRow("L1", "P1", "s1")>>)}
    ELSE {Absent, Unreadable,
          Rows(<<ArtifactRow("L2", "P1", "s1")>>),
          Rows(<<ArtifactRow("L1", "P1", "s3")>>)}

EmptyDirectory == [f \in LoadFiles |-> Absent]
\* What the extraction side drops into a directory between two loader runs:
\* nothing, or one file.
Deliveries ==
    UNION {{[EmptyDirectory EXCEPT ![f] = c] : c \in ContentsOf(f)} : f \in LoadFiles}

ProcessTypes == {"initial_load", "incremental_load"}
\* Config.DIR_STRUCTURE: the directory each mode scans
DirOf(ptype) == IF ptype = "initial_load" THEN "raw_data" ELSE "new_data"

\* FileProcessor.calculate_row_hash: md5 of the joined key columns
calculate_row_hash(row) ==
    <<row.label, "|", row.description, "|", row.value, "|", row.time>>

\* FileProcessor.extract_lot_info
extract_lot_info(df, filename_lot_number) ==
    LET extracted_lot_number == df[1].lot
    IN  [lot_number |-> IF extracted_lot_number # filename_lot_number
                        THEN extracted_lot_number ELSE filename_lot_number,
         product_id |-> df[1].product_id,
         product_name |-> df[1].product_name,
         status |-> df[1].status]

\* FileProcessor.prepare_data_for_insert, with the hash column of line 79;
\* att names the process_csv_file call that inserts the row.
prepare_data_for_insert(df, lot_no, att) ==
    [k \in 1..Len(df) |->
        [lot_number |-> lot_no,
         master_template_name |-> df[k].product_name,
         structure_label |-> df[k].label,
         description |-> df[k].description,
         input_data_value |-> df[k].value,
         data_capture_time |-> df[k].time,
         data_hash |-> calculate_row_hash(df[k]),
         att |-> att]]

\* The three tables (sql/schema.py)
EmptyDb == [lots |-> {}, lot_data |-> <<>>, history |-> <<>>]

\* CHECK_LOT_EXISTS, fetchone(): the matching rows
check_lot_exists(d, lot_no) == {r \in d.lots : r.lot_number = lot_no}

\* An insert that adds no lots row
insert_lot_nothing(d, info, now) == d

\* INSERT_LOT at transaction time now
insert_lot(d, info, now) ==
    [d EXCEPT !.lots = @ \cup
        {[lot_number |-> info.lot_number, product_id |-> info.product_id,
          product_name |-> info.product_name, status |-> info.status,
          first_loaded |-> now, last_updated |-> now]}]

\* An update that also resets first_loaded
update_lot_reset(d, info, now) ==
    [d EXCEPT !.lots =
        {IF r.lot_number = info.lot_number
         THEN [r EXCEPT !.product_id = info.product_id,
                        !.product_name = info.product_name,
                        !.status = info.status,
                        !.first_loaded = now,
                        !.last_updated = now]
         ELSE r : r \in @}]

\* UPDATE_LOT at transaction time now
update_lot(d, info, now) ==
    [d EXCEPT !.lots =
        {IF r.lot_number = info.lot_number
         THEN [r EXCEPT !.product_id = info.product_id,
                        !.product_name = info.product_name,
                        !.status = info.status,
                        !.last_updated = now]
         ELSE r : r \in @}]

\* A delete that removes nothing
delete_lot_data_none(d, lot_no) == d

\* A delete without its WHERE clause
delete_lot_data_all(d, lot_no) == [d EXCEPT !.lot_data = <<>>]

\* DELETE_LOT_DATA
delete_lot_data(d, lot_no) ==
    [d EXCEPT !.lot_data = SelectSeq(@, LAMBDA r : r.lot_number # lot_no)]

\* INSERT_LOT_DATA through execute_values
insert_lot_data(d, data_to_insert) ==
    [d EXCEPT !.lot_data = @ \o data_to_insert]

\* INSERT_PROCESSING_HISTORY
log_processing_history(d, att, filename, lot_no, ptype, count, status) ==
    [d EXCEPT !.history = Append(@,
        [att |-> att, filename |-> filename, lot_number |-> lot_no,
         process_type |-> ptype, record_count |-> count, status |-> status])]

\* glob.glob over a directory: the files present, in either listing order
Present(directory) == {f \in LoadFiles : directory[f] # Absent}
Listings(directory) ==
    {s \in UNION {[1..n -> LoadFiles] : n \in 0..Cardinality(LoadFiles)} :
        /\ {s[k] : k \in 1..Len(s)} = Present(directory)
        /\ Len(s) = Cardinality(Present(directory))}

\* A delivered file replaces the file of the same name.
Deliver(directory, delivered) ==
    [f \in LoadFiles |-> IF delivered[f] # Absent THEN delivered[f] ELSE directory[f]]

NoLotInfo == [lot_number |-> "", product_id |-> <<>>, product_name |-> <<>>,
              status |-> <<>>]

LoadLocalsInit ==
    /\ csv_files = <<>>
    /\ file_path = ""
    /\ csv_df = <<>>
    /\ lot_info = NoLotInfo
    /\ record_count = 0
    /\ raised = FALSE

LoadLocalsReset ==
    /\ csv_df' = <<>>
    /\ lot_info' = NoLotInfo

\* The loader never runs in the extraction profiles.
LoadIdle ==
    /\ lpc = "off"
    /\ process_type = "initial_load"
    /\ dirs = [d \in {"raw_data", "new_data"} |-> EmptyDirectory]
    /\ processed_dir = {}
    /\ conn = "closed"
    /\ db = EmptyDb
    /\ tx = EmptyDb
    /\ db_before = EmptyDb
    /\ attempt = 0
    /\ loads = 0
    /\ artifact_log = <<>>
    /\ LoadLocalsInit

\* The tables before the first modelled run: just created, or as an earlier
\* initial load of one row of lot L1 left them.
LoadedDb ==
    LET rows == <<ArtifactRow("L1", "P0", "s0")>>
        info == extract_lot_info(rows, "L1")
    IN  log_processing_history(
            insert_lot_data(insert_lot(EmptyDb, info, 0),
                            prepare_data_for_insert(rows, info.lot_number, 0)),
            0, "L1.csv", info.lot_number, "initial_load", Len(rows), "success")
InitialDbs == {EmptyDb, LoadedDb}

InitLoader ==
    /\ lpc = "idle"
    /\ process_type = "initial_load"
    /\ dirs = [d \in {"raw_data", "new_data"} |-> EmptyDirectory]
    /\ processed_dir = {}
    /\ conn = "closed"
    /\ db \in InitialDbs
    /\ tx = db
    /\ db_before = db
    /\ attempt = 0
    /\ loads = 0
    /\ artifact_log = <<>>
    /\ LoadLocalsInit

\* Positions at which a loader process is alive
LoadRunning == lpc \notin {"off", "idle", "escaped", "killed"}
\* Positions inside a process_csv_file call
InCall == lpc \in {"read", "upsert", "delete", "insert", "history", "commit",
                   "rollback", "log_error", "commit_error"}

\* BulkLoader.bulk_load_initial_data (27-48) and process_new_data (66-80):
\* connect, scan the mode's directory.
LoadStart(mode, delivered) ==
    /\ lpc \in {"idle", "escaped", "killed"}
    /\ loads < MaxLoads
    /\ loads' = loads + 1
    /\ process_type' = mode
    /\ dirs' = [dirs EXCEPT ![DirOf(mode)] = Deliver(@, delivered)]
    /\ conn' = "open"
    /\ tx' = db
    /\ \E listing \in Listings(dirs'[DirOf(mode)]) : csv_files' = listing
    /\ file_path' = ""
    /\ record_count' = 0
    /\ raised' = FALSE
    /\ LoadLocalsReset
    /\ lpc' = "loop"
    /\ UNCHANGED <<processed_dir, db, db_before, attempt, artifact_log>>

\* The for loop's head (50-51, 82-83) and the statements after the loop
NextFile ==
    /\ lpc = "loop"
    /\ IF csv_files = <<>>
       THEN /\ lpc' = "idle"
            /\ conn' = "closed"
            /\ file_path' = ""
            /\ db_before' = db
            /\ raised' = FALSE
            /\ record_count' = 0
            /\ UNCHANGED <<csv_files, attempt, artifact_log>>
       ELSE /\ lpc' = "read"
            /\ file_path' = Head(csv_files)
            /\ csv_files' = Tail(csv_files)
            /\ attempt' = attempt + 1
            /\ artifact_log' = Append(artifact_log,
                                       dirs[DirOf(process_type)][Head(csv_files)])
            /\ db_before' = db
            /\ raised' = FALSE
            /\ record_count' = 0
            /\ UNCHANGED conn
    /\ LoadLocalsReset
    /\ UNCHANGED <<process_type, dirs, processed_dir, db, tx, loads>>

\* A statement raised inside the try block: control enters the handler.
Raise ==
    /\ lpc' = "rollback"
    /\ raised' = TRUE

LoadFrame == UNCHANGED <<process_type, dirs, processed_dir, conn, csv_files, file_path,
                         attempt, loads, db_before, artifact_log>>

\* process_csv_file 67-83: read, empty check, lot info, hash column
ReadCsv ==
    /\ lpc = "read"
    /\ LET content == dirs[DirOf(process_type)][file_path]
       IN  IF content.kind # "rows"
           THEN /\ Raise
                /\ UNCHANGED <<csv_df, lot_info, record_count>>
           ELSE IF content.rows = <<>>
           THEN /\ lpc' = "returned"
                /\ record_count' = 0
                /\ UNCHANGED <<csv_df, lot_info, raised>>
           ELSE /\ lpc' = "upsert"
                /\ csv_df' = content.rows
                /\ lot_info' = extract_lot_info(content.rows, StemOf(file_path))
                /\ UNCHANGED <<record_count, raised>>
    /\ LoadFrame
    /\ UNCHANGED <<db, tx>>

\* A statement on the connection: it raises when the connection is gone.
Statement(effect, next) ==
    /\ IF conn = "open"
       THEN /\ tx' = effect
            /\ lpc' = next
            /\ UNCHANGED raised
       ELSE /\ Raise
            /\ UNCHANGED tx
    /\ LoadFrame
    /\ UNCHANGED <<db, csv_df, lot_info, record_count>>

\* process_csv_file 87-93
UpsertLot ==
    /\ lpc = "upsert"
    /\ Statement(IF check_lot_exists(tx, lot_info.lot_number) # {}
                 THEN update_lot(tx, lot_info, attempt)
                 ELSE insert_lot(tx, lot_info, attempt),
                 IF process_type = "incremental_load" THEN "delete" ELSE "insert")

\* process_csv_file 96-98
DeleteLotData ==
    /\ lpc = "delete"
    /\ Statement(delete_lot_data(tx, lot_info.lot_number), "insert")

\* process_csv_file 101-102
InsertLotData ==
    /\ lpc = "insert"
    /\ Statement(insert_lot_data(tx,
                    prepare_data_for_insert(csv_df, lot_info.lot_number, attempt)),
                 "history")

\* process_csv_file 105-109
LogSuccessHistory ==
    /\ lpc = "history"
    /\ Statement(log_processing_history(tx, attempt, file_path, lot_info.lot_number,
                                        process_type, Len(csv_df), "success"),
                 "commit")

\* process_csv_file 111-113
Commit ==
    /\ lpc = "commit"
    /\ IF conn = "open"
       THEN /\ db' = tx
            /\ lpc' = "returned"
            /\ record_count' = Len(csv_df)
            /\ UNCHANGED raised
       ELSE /\ Raise
            /\ UNCHANGED <<db, record_count>>
    /\ LoadFrame
    /\ UNCHANGED <<tx, csv_df, lot_info>>

\* An exception leaves the handler: it leaves process_csv_file and the
\* loop of the loader, which has no handler, and the process ends.
Escapes ==
    /\ lpc' = "escaped"
    /\ UNCHANGED <<tx, db>>

\* process_csv_file 116
Rollback ==
    /\ lpc = "rollback"
    /\ IF conn = "open"
       THEN /\ tx' = db
            /\ lpc' = "log_error"
            /\ UNCHANGED db
       ELSE Escapes
    /\ LoadFrame
    /\ UNCHANGED <<csv_df, lot_info, record_count, raised>>

\* process_csv_file 120-124
LogErrorHistory ==
    /\ lpc = "log_error"
    /\ IF conn = "open"
       THEN /\ tx' = log_processing_history(tx, attempt, file_path, StemOf(file_path),
                                            process_type, 0, "error")
            /\ lpc' = "commit_error"
            /\ UNCHANGED db
       ELSE Escapes
    /\ LoadFrame
    /\ UNCHANGED <<csv_df, lot_info, record_count, raised>>

\* process_csv_file 125-126
CommitError ==
    /\ lpc = "commit_error"
    /\ IF conn = "open"
       THEN /\ db' = tx
            /\ lpc' = "returned"
            /\ record_count' = 0
            /\ UNCHANGED tx
       ELSE /\ Escapes
            /\ UNCHANGED record_count
    /\ LoadFrame
    /\ UNCHANGED <<csv_df, lot_info, raised>>

\* FileUtils.archive_file
archive_file(directories, archived, filename, mode) ==
    [dirs |-> IF mode = "incremental_load"
              THEN [directories EXCEPT ![DirOf(mode)][filename] = Absent]
              ELSE directories,
     processed_dir |-> archived \cup {filename}]

\* A loop body that archives the file whatever process_csv_file returned.
AfterFile_always ==
    /\ lpc = "returned"
    /\ lpc' = "loop"
    /\ LET a == archive_file(dirs, processed_dir, file_path, process_type)
       IN  /\ dirs' = a.dirs
           /\ processed_dir' = a.processed_dir
    /\ UNCHANGED <<process_type, conn, csv_files, file_path, attempt, loads, db_before,
                   db, tx, csv_df, lot_info, record_count, raised, artifact_log>>

\* The loop body after the call (52-55, 84-87)
AfterFile ==
    /\ lpc = "returned"
    /\ lpc' = "loop"
    /\ IF record_count > 0
       THEN LET a == archive_file(dirs, processed_dir, file_path, process_type)
            IN  /\ dirs' = a.dirs
                /\ processed_dir' = a.processed_dir
       ELSE UNCHANGED <<dirs, processed_dir>>
    /\ UNCHANGED <<process_type, conn, csv_files, file_path, attempt, loads, db_before,
                   db, tx, csv_df, lot_info, record_count, raised, artifact_log>>

\* The server or the network drops the connection during a call: the server
\* discards the open transaction.
ConnectionLost ==
    /\ InCall
    /\ conn = "open"
    /\ conn' = "broken"
    /\ tx' = db
    /\ UNCHANGED <<lpc, process_type, dirs, processed_dir, csv_files, file_path, attempt,
                   loads, db_before, db, csv_df, lot_info, record_count, raised,
                   artifact_log>>

\* A server that kept the open transaction of a terminated client
ProcessKilled_commits ==
    /\ LoadRunning
    /\ lpc' = "killed"
    /\ conn' = "closed"
    /\ db' = tx
    /\ UNCHANGED <<process_type, dirs, processed_dir, csv_files, file_path, attempt,
                   loads, db_before, tx, csv_df, lot_info, record_count, raised,
                   artifact_log>>

\* The loader process is terminated between two statements.
ProcessKilled ==
    /\ LoadRunning
    /\ lpc' = "killed"
    /\ conn' = "closed"
    /\ tx' = db
    /\ UNCHANGED <<process_type, dirs, processed_dir, csv_files, file_path, attempt,
                   loads, db_before, db, csv_df, lot_info, record_count, raised,
                   artifact_log>>

----------------------------------------------------------------------------
\* _merge_data: the structure joins, the column clean-up and the actor filter

MaxCapture == 2     \* capture rows of one production record

\* A missing value of a pandas frame
NaN == <<"NaN">>

\* pd.DataFrame(): a frame without columns
EmptyFrame == [kind |-> "empty", rows |-> <<>>]
\* A structure table with its key and title columns
Table(rows) == [kind |-> "table", rows |-> rows]
\* A structure table whose key column has another dtype than the capture
\* frame's (ensure_required_columns fills a missing id column with '')
Mismatched(rows) == [kind |-> "mismatch", rows |-> rows]

\* Performed By values: a person, a system actor, a system actor with a
\* leading blank
UserNames == {<<"jdoe">>, <<"VOD_", "svc">>, <<Blank, "VOD_", "svc">>}
OperationIds == {1, 2}

\* The capture frame of fetch_production_record_data: orderLabel numbers the
\* rows; every row is of unit procedure 1 and phase 1 of template 1.
CaptureRow(n, op, user) ==
    [orderLabel |-> n, masterTemplateId |-> 1, unitProcedureId |-> 1,
     operationId |-> op, phaseId |-> 1, userName |-> user]
CaptureFrames ==
    UNION {{[n \in 1..k |-> CaptureRow(n, ops[n], users[n])] :
                ops \in [1..k -> OperationIds], users \in [1..k -> UserNames]} :
           k \in 1..MaxCapture}

\* _process_unit_procedures, _process_operations, _process_phases
UnitRow(up, title) ==
    [masterTemplateId |-> 1, unitProcedureId |-> up, Unit |-> title]
OperationRow(up, op, title) ==
    [masterTemplateId |-> 1, unitProcedureId |-> up, operationId |-> op,
     Operation |-> title]
PhaseRow(up, op, ph, title) ==
    [masterTemplateId |-> 1, unitProcedureId |-> up, operationId |-> op,
     phaseId |-> ph, Phase |-> title]

\* What fetch_production_structure_metadata can return for each level: no
\* frame (failed request, or no row of the level), a table whose keys do not
\* compare, a table with unique keys, a table with a repeated key.  No table
\* has a row for operation 2.
UnitFrames ==
    {EmptyFrame, Mismatched(<<UnitRow(1, <<"U1">>)>>),
     Table(<<UnitRow(1, <<"U1">>)>>),
     Table(<<UnitRow(1, <<"U1">>), UnitRow(1, <<"U1b">>)>>)}
OperationFrames ==
    {EmptyFrame, Mismatched(<<OperationRow(1, 1, <<"O1">>)>>),
     Table(<<OperationRow(1, 1, <<"O1">>)>>),
     Table(<<OperationRow(1, 1, <<"O1">>), OperationRow(1, 1, <<"O1b">>)>>)}
PhaseFrames ==
    {EmptyFrame, Mismatched(<<PhaseRow(1, 1, 1, <<"Ph1", Blank>>)>>),
     Table(<<PhaseRow(1, 1, 1, <<"Ph1", Blank>>)>>)}

\* The on= columns of the three merges
KeyOf(level, r) ==
    IF level = "Unit" THEN <<r.masterTemplateId, r.unitProcedureId>>
    ELSE IF level = "Operation"
    THEN <<r.masterTemplateId, r.unitProcedureId, r.operationId>>
    ELSE <<r.masterTemplateId, r.unitProcedureId, r.operationId, r.phaseId>>

\* One left row of an inner merge: an unmatched row is dropped
JoinRow_inner(lrow, rrows, level) ==
    LET matches == SelectSeq(rrows, LAMBDA r : KeyOf(level, r) = KeyOf(level, lrow))
    IN  [i \in 1..Len(matches) |-> (level :> matches[i][level]) @@ lrow]

\* One left row of a how='left' merge: a row per matching right row, or the
\* row with a missing value
JoinRow(lrow, rrows, level) ==
    LET matches == SelectSeq(rrows, LAMBDA r : KeyOf(level, r) = KeyOf(level, lrow))
    IN  IF matches = <<>> THEN <<(level :> NaN) @@ lrow>>
        ELSE [i \in 1..Len(matches) |-> (level :> matches[i][level]) @@ lrow]

RECURSIVE LeftJoin(_, _, _)
LeftJoin(lrows, rrows, level) ==
    IF lrows = <<>> THEN <<>>
    ELSE JoinRow(Head(lrows), rrows, level) \o LeftJoin(Tail(lrows), rrows, level)

\* DataFrame.merge(right, how='left', on=keys): KeyError when right has no
\* key column, ValueError when the key dtypes do not compare
merge(lrows, right, level) ==
    IF right.kind = "empty" THEN [raises |-> "KeyError", rows |-> lrows]
    ELSE IF right.kind = "mismatch" THEN [raises |-> "ValueError", rows |-> lrows]
    ELSE [raises |-> "", rows |-> LeftJoin(lrows, right.rows, level)]

\* merged_df[col] = ""
SetColumn(rows, col, value) == [i \in 1..Len(rows) |-> (col :> value) @@ rows[i]]

Raised(kind, rows) == [raises |-> kind, rows |-> rows]

\* bulk_fetch._merge_data 114-137: nested try blocks, except ValueError
merge_structure_bulk(record_rows, unit, operation, phase) ==
    LET m1 == merge(record_rows, unit, "Unit")
        m2 == merge(m1.rows, operation, "Operation")
        m3 == merge(m2.rows, phase, "Phase")
    IN  IF m1.raises = "KeyError" THEN m1
        ELSE IF m1.raises = "ValueError"
        THEN Raised("", SetColumn(SetColumn(SetColumn(record_rows, "Unit", <<>>),
                                            "Operation", <<>>), "Phase", <<>>))
        ELSE IF m2.raises = "KeyError" THEN m2
        ELSE IF m2.raises = "ValueError"
        THEN Raised("", SetColumn(SetColumn(m1.rows, "Operation", <<>>), "Phase", <<>>))
        ELSE IF m3.raises = "KeyError" THEN m3
        ELSE IF m3.raises = "ValueError"
        THEN Raised("", SetColumn(m2.rows, "Phase", <<>>))
        ELSE m3

\* incremental_fetch._merge_data 97-107: one try block, except ValueError
merge_structure_incr(record_rows, unit, operation, phase) ==
    LET m1 == merge(record_rows, unit, "Unit")
        m2 == merge(m1.rows, operation, "Operation")
        m3 == merge(m2.rows, phase, "Phase")
        blank(rows) == SetColumn(SetColumn(SetColumn(rows, "Unit", <<>>),
                                           "Operation", <<>>), "Phase", <<>>)
    IN  IF m1.raises = "KeyError" THEN m1
        ELSE IF m1.raises = "ValueError" THEN Raised("", blank(record_rows))
        ELSE IF m2.raises = "KeyError" THEN m2
        ELSE IF m2.raises = "ValueError" THEN Raised("", blank(m1.rows))
        ELSE IF m3.raises = "KeyError" THEN m3
        ELSE IF m3.raises = "ValueError" THEN Raised("", blank(m2.rows))
        ELSE m3

merge_structure(v, record_rows, unit, operation, phase) ==
    IF v = "incr" THEN merge_structure_incr(record_rows, unit, operation, phase)
    ELSE merge_structure_bulk(record_rows, unit, operation, phase)

\* Final column selection and rename (140-151)
SelectColumns(rows) ==
    [i \in 1..Len(rows) |->
        [StructureLabel |-> rows[i].orderLabel, Unit |-> rows[i].Unit,
         Operation |-> rows[i].Operation, Phase |-> rows[i].Phase,
         PerformedBy |-> rows[i].userName]]

\* A clean-up that leaves the text columns as they are
StripColumns_none(rows) == rows

\* x.str.strip() on an object column: a missing value stays missing
StripCell(value) == IF value = NaN THEN NaN ELSE Strip(value)
StripColumns(rows) ==
    [i \in 1..Len(rows) |->
        [rows[i] EXCEPT !.Unit = StripCell(@), !.Operation = StripCell(@),
                        !.Phase = StripCell(@), !.PerformedBy = StripCell(@)]]

\* str.startswith('VOD_')
StartsWithVOD(value) == value # <<>> /\ value[1] = "VOD_"
\* final_df[~final_df['Performed By'].str.startswith('VOD_')]
FilterActors(rows) == SelectSeq(rows, LAMBDA r : ~StartsWithVOD(r.PerformedBy))

\* DataFrame.to_csv: a missing value is written as an empty field
CsvCell(value) == IF value = NaN THEN <<>> ELSE value
to_csv(rows) ==
    [i \in 1..Len(rows) |->
        [rows[i] EXCEPT !.Unit = CsvCell(@), !.Operation = CsvCell(@),
                        !.Phase = CsvCell(@), !.PerformedBy = CsvCell(@)]]

MergeLocalsInit ==
    /\ joined_df = <<>>
    /\ final_df = <<>>
    /\ artifact_csv = <<>>
    /\ record_status = ""

\* No merge is under way in the other profiles.
MergeIdle ==
    /\ mpc = "off"
    /\ merge_variant = "bulk"
    /\ capture_df = <<>>
    /\ unit_df = EmptyFrame /\ operation_df = EmptyFrame /\ phase_df = EmptyFrame
    /\ MergeLocalsInit

\* The structure merges of _merge_data; an exception other than ValueError
\* reaches the except clause of process_record, which logs Fail.
MergeStructure ==
    /\ mpc = "merge"
    /\ LET m == merge_structure(merge_variant, capture_df, unit_df, operation_df,
                                phase_df)
       IN  IF m.raises # ""
           THEN /\ mpc' = "failed"
                /\ record_status' = "Fail"
                /\ UNCHANGED joined_df
           ELSE /\ mpc' = "clean"
                /\ joined_df' = m.rows
                /\ UNCHANGED record_status
    /\ UNCHANGED <<merge_variant, capture_df, unit_df, operation_df, phase_df,
                   final_df, artifact_csv>>

\* Column selection, strip and actor filter of _merge_data
CleanAndFilter ==
    /\ mpc = "clean"
    /\ mpc' = "write"
    /\ final_df' = FilterActors(StripColumns(SelectColumns(joined_df)))
    /\ UNCHANGED <<merge_variant, capture_df, unit_df, operation_df, phase_df,
                   joined_df, artifact_csv, record_status>>

\* merged_df.to_csv and log_status(..., "Success")
WriteCsv ==
    /\ mpc = "write"
    /\ mpc' = "written"
    /\ artifact_csv' = to_csv(final_df)
    /\ record_status' = "Success"
    /\ UNCHANGED <<merge_variant, capture_df, unit_df, operation_df, phase_df,
                   joined_df, final_df>>

----------------------------------------------------------------------------
\* reformat_datetime (utils.py).  A text is the sequence of its characters.

DigitChars == <<"0", "1", "2", "3", "4", "5", "6", "7", "8", "9">>
IsDigit(c) == \E n \in 1..10 : DigitChars[n] = c
DigitVal(c) == (CHOOSE n \in 1..10 : DigitChars[n] = c) - 1
RECURSIVE Num(_)
Num(s) == IF s = <<>> THEN 0 ELSE 10 * Num(SubSeq(s, 1, Len(s) - 1)) + DigitVal(s[Len(s)])
AllDigits(s) == \A i \in 1..Len(s) : IsDigit(s[i])

\* str(n)
RECURSIVE Digits(_)
Digits(n) == IF n < 10 THEN <<DigitChars[n + 1]>> ELSE Digits(n \div 10) \o <<DigitChars[(n % 10) + 1]>>
\* A minute written without padding
Digits_unpadded(n) == Digits(n)
\* strftime('%M')
TwoDigits(n) == <<DigitChars[(n \div 10) + 1], DigitChars[(n % 10) + 1]>>

\* The calendar, counted in minutes from 2023-01-01 00:00 UTC (a Sunday)
EpochYear == 2023
IsLeap(y) == y % 4 = 0 /\ (y % 100 # 0 \/ y % 400 = 0)
DaysInMonth(y, m) ==
    IF m = 2 THEN (IF IsLeap(y) THEN 29 ELSE 28)
    ELSE IF m \in {4, 6, 9, 11} THEN 30 ELSE 31
RECURSIVE DaysBeforeMonth(_, _)
DaysBeforeMonth(y, m) ==
    IF m = 1 THEN 0 ELSE DaysBeforeMonth(y, m - 1) + DaysInMonth(y, m - 1)
RECURSIVE DaysBeforeYear(_)
DaysBeforeYear(y) ==
    IF y <= EpochYear THEN 0
    ELSE DaysBeforeYear(y - 1) + (IF IsLeap(y - 1) THEN 366 ELSE 365)
MinutesOf(y, m, d, h, mi) ==
    ((DaysBeforeYear(y) + DaysBeforeMonth(y, m) + d - 1) * 24 + h) * 60 + mi

\* The calendar fields of a count of minutes
Civil(t) ==
    LET days == t \div 1440
        y == CHOOSE yy \in EpochYear..(EpochYear + 3) :
                DaysBeforeYear(yy) <= days /\ days < DaysBeforeYear(yy + 1)
        yday == days - DaysBeforeYear(y)
        m == CHOOSE mm \in 1..12 :
                /\ DaysBeforeMonth(y, mm) <= yday
                /\ yday < DaysBeforeMonth(y, mm) + DaysInMonth(y, mm)
    IN  [year |-> y, month |-> m, day |-> yday - DaysBeforeMonth(y, m) + 1,
         hour |-> (t % 1440) \div 60, minute |-> t % 60]

\* pytz.timezone("America/New_York"): daylight time from the second Sunday of
\* March, 07:00 UTC, to the first Sunday of November, 06:00 UTC
Sunday(y, m, from) ==
    CHOOSE d \in from..(from + 6) :
        (DaysBeforeYear(y) + DaysBeforeMonth(y, m) + d - 1) % 7 = 0
EasternOffset(t) ==
    LET y == Civil(t).year
        dst_start == MinutesOf(y, 3, Sunday(y, 3, 8), 7, 0)
        dst_end == MinutesOf(y, 11, Sunday(y, 11, 1), 6, 0)
    IN  IF dst_start <= t /\ t < dst_end THEN -240 ELSE -300

\* dateutil.parser.parse on the texts of the model: an ISO date and time,
\* followed by nothing, by Z or by a +hh:mm offset; <<>> when it raises.
NoDate == <<>>
parse(s) ==
    IF /\ Len(s) \in {19, 20, 25}
       /\ s[5] = "-" /\ s[8] = "-" /\ s[11] = "T" /\ s[14] = ":" /\ s[17] = ":"
       /\ AllDigits(SubSeq(s, 1, 4) \o SubSeq(s, 6, 7) \o SubSeq(s, 9, 10)
                    \o SubSeq(s, 12, 13) \o SubSeq(s, 15, 16) \o SubSeq(s, 18, 19))
       /\ Len(s) = 20 => s[20] = "Z"
       /\ Len(s) = 25 => /\ s[20] = "+" /\ s[23] = ":"
                         /\ AllDigits(SubSeq(s, 21, 22) \o SubSeq(s, 24, 25))
    THEN LET y == Num(SubSeq(s, 1, 4))
             m == Num(SubSeq(s, 6, 7))
             d == Num(SubSeq(s, 9, 10))
             h == Num(SubSeq(s, 12, 13))
             mi == Num(SubSeq(s, 15, 16))
         IN  IF /\ m \in 1..12 /\ d >= 1 /\ d <= DaysInMonth(y, m)
                /\ h <= 23 /\ mi <= 59
             THEN <<[year |-> y, month |-> m, day |-> d, hour |-> h, minute |-> mi,
                     tzinfo |-> IF Len(s) = 19 THEN <<>>
                                ELSE IF Len(s) = 20 THEN <<0>>
                                ELSE <<60 * Num(SubSeq(s, 21, 22))
                                        + Num(SubSeq(s, 24, 25))>>]>>
             ELSE NoDate
    ELSE NoDate

\* reformat_datetime
reformat_datetime(text) ==
    LET parsed == parse(text)
    IN  IF parsed = NoDate THEN text
        ELSE LET dt == parsed[1]
                 wall == MinutesOf(dt.year, dt.month, dt.day, dt.hour, dt.minute)
                 dt_utc == IF dt.tzinfo = <<>> THEN wall ELSE wall - dt.tzinfo[1]
                 dt_et == Civil(dt_utc + EasternOffset(dt_utc))
             IN  Digits(dt_et.month) \o <<"/">> \o Digits(dt_et.day) \o <<"/">>
                 \o Digits(dt_et.year) \o <<" ">> \o Digits(dt_et.hour) \o <<":">>
                 \o TwoDigits(dt_et.minute)

\* The texts of the Data Capture Time column
Dates == {<<"2", "0", "2", "4", "-", "0", "1", "-", "0", "1">>,
          <<"2", "0", "2", "4", "-", "0", "3", "-", "0", "1">>,
          <<"2", "0", "2", "4", "-", "0", "3", "-", "1", "0">>,
          <<"2", "0", "2", "4", "-", "0", "7", "-", "0", "4">>,
          <<"2", "0", "2", "4", "-", "1", "1", "-", "0", "3">>,
          <<"2", "0", "2", "4", "-", "1", "2", "-", "3", "1">>,
          <<"2", "0", "2", "4", "-", "0", "2", "-", "3", "0">>}
Hours == {<<"0", "0">>, <<"0", "4">>, <<"0", "6">>, <<"0", "7">>, <<"1", "8">>,
          <<"2", "3">>}
Minutes == {<<"0", "0">>, <<"0", "5">>, <<"5", "9">>}
Zones == {<<>>, <<"Z">>, <<"+", "0", "2", ":", "0", "0">>}
DateTexts ==
    {d \o <<"T">> \o h \o <<":">> \o mi \o <<":", "0", "0">> \o z :
        d \in Dates, h \in Hours, mi \in Minutes, z \in Zones}
    \cup {<<>>, <<"n", "/", "a">>}

TimeIdle == tpc = "off" /\ date_str = <<>> /\ formatted = <<>>

\* final_df['Data Capture Time'].apply(reformat_datetime), one cell
ReformatDatetime ==
    /\ tpc = "call"
    /\ tpc' = "done"
    /\ formatted' = reformat_datetime(date_str)
    /\ UNCHANGED date_str

\* main() of incremental_fetch.py is not running in the other profiles.
WindowIdle ==
    /\ wpc = "off"
    /\ window_csv = <<>>
    /\ window = <<>>
    /\ record_ids = <<>>
    /\ source = "none"
    /\ now_hour = 0
    /\ wruns = 0
    /\ fetched = <<>>

\* incremental_fetch.py 20-22
SIX_HOURS_IN_SECONDS == 21600
FIRST_RUN_EPOCH == 1741564801
SecondsPerHour == 3600
\* datetime.now(timezone.utc).replace(minute=0, second=0, microsecond=0)
NowEpoch(h) == (FIRST_RUN_EPOCH - 1) + SecondsPerHour * h

Window(start_epoch) ==
    [start_epoch |-> start_epoch, end_epoch |-> start_epoch + SIX_HOURS_IN_SECONDS]

\* How fetch_paginated_data can answer the record-id request: rows of every
\* page; no row; no row because the first page request ran out of retries;
\* the rows of the first pages because a later one did; an exception
Answers == {"rows", "empty", "exhausted", "partial", "raises"}
AllDataOf(answer) ==
    IF answer \in {"rows", "partial"}
    THEN SeqsUpTo(Ids, MaxId + 1) \ {<<>>}
    ELSE {<<>>}

\* fetch_production_record_ids 31-35: [] for no rows, else the list of the set
\* of the productionRecordId values, in any order
fetch_production_record_ids(items) ==
    IF items = <<>> THEN {<<>>}
    ELSE {ids \in IdLists :
            {ids[k] : k \in 1..Len(ids)} = {items[k] : k \in 1..Len(items)}}

\* main() 185-187 and 196-198: read the file, add the window, write it back
append_window(csv, w) == <<Append(csv[1], w)>>
\* main() 183-198: the file after main() ran with this window and these ids
RecordWindow(csv, w, ids) ==
    IF ids = <<>>
    THEN IF w # <<>> THEN append_window(csv, w[1]) ELSE csv
    ELSE append_window(csv, w[1])

\* A new process starts main() at a later hour.
WindowStart ==
    /\ wpc \in {"idle", "done"}
    /\ wruns < MaxWindowRuns
    /\ \E h \in (now_hour + 1)..MaxHour : now_hour' = h
    /\ wruns' = wruns + 1
    /\ wpc' = "window"
    /\ window' = <<>>
    /\ record_ids' = <<>>
    /\ source' = "none"
    /\ UNCHANGED <<window_csv, fetched>>

\* append_next_six_hour_window inside the try of
\* streamload_and_process_records: iloc[-1] raises on a file without rows
AppendNextSixHourWindow ==
    /\ wpc = "window"
    /\ LET max_end_time == NowEpoch(now_hour) - SIX_HOURS_IN_SECONDS
       IN  IF window_csv # <<>> /\ window_csv[1] = <<>>
           THEN /\ window' = <<>>
                /\ wpc' = "main"
                /\ UNCHANGED window_csv
           ELSE LET last_end_epoch ==
                        IF window_csv # <<>>
                        THEN window_csv[1][Len(window_csv[1])].end_epoch
                        ELSE FIRST_RUN_EPOCH
                    start_epoch == IF last_end_epoch > FIRST_RUN_EPOCH
                                   THEN last_end_epoch ELSE FIRST_RUN_EPOCH
                    end_epoch == start_epoch + SIX_HOURS_IN_SECONDS
                IN  /\ window_csv' = IF window_csv = <<>> THEN <<<<>>>> ELSE window_csv
                    /\ IF end_epoch > max_end_time
                       THEN window' = <<>> /\ wpc' = "main"
                       ELSE window' = <<Window(start_epoch)>> /\ wpc' = "fetch_ids"
    /\ UNCHANGED <<record_ids, source, now_hour, wruns, fetched>>

\* streamload_and_process_records 166-175
FetchProductionRecordIds ==
    /\ wpc = "fetch_ids"
    /\ \E answer \in Answers :
        /\ source' = answer
        /\ fetched' = Append(fetched, [start_epoch |-> window[1].start_epoch,
                                       answer |-> answer])
        /\ IF answer = "raises"
           THEN window' = <<>> /\ record_ids' = <<>>
           ELSE /\ \E items \in AllDataOf(answer) :
                    record_ids' \in fetch_production_record_ids(items)
                /\ UNCHANGED window
    /\ wpc' = "main"
    /\ UNCHANGED <<window_csv, now_hour, wruns>>

\* main() 183-198; pipeline.run(record_ids) is the run of the incremental
\* driver
Main ==
    /\ wpc = "main"
    /\ window_csv' = RecordWindow(window_csv, window, record_ids)
    /\ wpc' = "done"
    /\ UNCHANGED <<window, record_ids, source, now_hour, wruns, fetched>>

----------------------------------------------------------------------------

InitFiles ==
    /\ ckptFile = NoCheckpoint
    /\ ledgerFile = <<>>
    /\ artifacts = [l \in CaptureLots |-> NoFile]

InitProcess ==
    /\ pc = "idle"
    /\ variant = "bulk"
    /\ runs = 0
    /\ start_arg = <<>>
    /\ start_id = 0 /\ end_id = 0 /\ batch_size = 1
    /\ id_list = <<>>
    /\ current_batch_start = 0
    /\ current_batch_end = -1
    /\ batch_ids = <<>>
    /\ production_record_id = -1
    /\ tracking_df = <<>>
    /\ lot_number = NoLot /\ record_df = 0 /\ lot_summary = <<>>
    /\ structure = "none" /\ merged_df = NoFrame
    /\ from_capture = <<>> /\ from_primary = <<>> /\ from_secondary = <<>>
    /\ calls = <<>> /\ done_ids = {} /\ reqs = <<>>
    /\ had_success = FALSE /\ had_entry = FALSE /\ len_at_call = 0
    /\ escaped = FALSE /\ same_range = FALSE

\* A fresh installation: no checkpoint, no ledger, no artifact.
Init == InitFiles /\ InitProcess /\ profile = "resume" /\ FetchIdle /\ LoadIdle /\ MergeIdle /\ TimeIdle /\ WindowIdle
InitRecord == InitFiles /\ InitProcess /\ profile = "record" /\ FetchIdle /\ LoadIdle /\ MergeIdle /\ TimeIdle /\ WindowIdle

Next ==
    \/ (StartRange /\ UNCHANGED <<fvars, lvars, mvars, tvars, wvars>>)
    \/ (StartIncremental /\ UNCHANGED <<fvars, lvars, mvars, tvars, wvars>>)
    \/ (BatchBegin /\ UNCHANGED <<fvars, lvars, mvars, tvars, wvars>>)
    \/ (RunComplete /\ UNCHANGED <<fvars, lvars, mvars, tvars, wvars>>)
    \/ (RecordBegin /\ UNCHANGED <<fvars, lvars, mvars, tvars, wvars>>)
    \/ (FetchProductionRecordData /\ UNCHANGED <<fvars, lvars, mvars, tvars, wvars>>)
    \/ (FetchBatchRecordsByLot /\ UNCHANGED <<fvars, lvars, mvars, tvars, wvars>>)
    \/ (FetchStructure /\ UNCHANGED <<fvars, lvars, mvars, tvars, wvars>>)
    \/ (FetchDataCaptureByLot /\ UNCHANGED <<fvars, lvars, mvars, tvars, wvars>>)
    \/ (MergeData /\ UNCHANGED <<fvars, lvars, mvars, tvars, wvars>>)
    \/ (WriteArtifact /\ UNCHANGED <<fvars, lvars, mvars, tvars, wvars>>)
    \/ (LogSuccess /\ UNCHANGED <<fvars, lvars, mvars, tvars, wvars>>)
    \/ (SaveCheckpoint /\ UNCHANGED <<fvars, lvars, mvars, tvars, wvars>>)
    \/ (Terminate /\ UNCHANGED <<fvars, lvars, mvars, tvars, wvars>>)

\* One run over a checkpoint file as earlier runs can have left it: absent,
\* cut short by a failed write, or holding the last id of a batch.
InitRun ==
    /\ ckptFile \in {NoCheckpoint, CorruptCheckpoint} \cup {Checkpoint(i) : i \in Ids}
    /\ ledgerFile = <<>>
    /\ artifacts = [l \in CaptureLots |-> NoFile]
    /\ InitProcess /\ profile = "run" /\ FetchIdle /\ LoadIdle /\ MergeIdle /\ TimeIdle /\ WindowIdle

\* One fetch_paginated_data call against any source.
InitFetch ==
    /\ InitFiles /\ InitProcess /\ profile = "fetch" /\ LoadIdle /\ MergeIdle /\ TimeIdle /\ WindowIdle
    /\ fpc = "loop"
    /\ pages \in Sources
    /\ FetchLocalsInit

\* The same call against the sources whose pages are empty: the retry loop
\* does not look at the content of a page.
InitFetchRetry ==
    /\ InitFiles /\ InitProcess /\ profile = "fetch" /\ LoadIdle /\ MergeIdle /\ TimeIdle /\ WindowIdle
    /\ fpc = "loop"
    /\ pages \in {src \in Sources : \A i \in 1..Len(src) : src[i].n = 0}
    /\ FetchLocalsInit

NextFetch ==
    \/ (PageLoop /\ UNCHANGED <<pvars, lvars, mvars, tvars, wvars>>)
    \/ (AttemptOk /\ UNCHANGED <<pvars, lvars, mvars, tvars, wvars>>)
    \/ (AttemptFails /\ UNCHANGED <<pvars, lvars, mvars, tvars, wvars>>)
    \/ (AttemptRaises /\ UNCHANGED <<pvars, lvars, mvars, tvars, wvars>>)
    \/ (GiveUp /\ UNCHANGED <<pvars, lvars, mvars, tvars, wvars>>)
    \/ (ParsePage /\ UNCHANGED <<pvars, lvars, mvars, tvars, wvars>>)

Spec == Init /\ [][Next]_vars
SpecRun == InitRun /\ [][Next]_vars
SpecRecord == InitRecord /\ [][Next]_vars
SpecFetch == InitFetch /\ [][NextFetch]_vars
\* The interpreter runs the call to its end: a step that can be taken is taken.
SpecFetchFair == InitFetchRetry /\ [][NextFetch]_vars /\ WF_vars(NextFetch)

\* One process_record call whose capture fetch is made page by page.
InCapture == pc = "fetch_record"
NextCall ==
    \/ (StartRange /\ UNCHANGED <<fvars, lvars, mvars, tvars, wvars>>)
    \/ (StartIncremental /\ UNCHANGED <<fvars, lvars, mvars, tvars, wvars>>)
    \/ (BatchBegin /\ UNCHANGED <<fvars, lvars, mvars, tvars, wvars>>)
    \/ (RunComplete /\ UNCHANGED <<fvars, lvars, mvars, tvars, wvars>>)
    \/ (RecordBegin /\ UNCHANGED <<fvars, lvars, mvars, tvars, wvars>>)
    \/ (CallFetch /\ UNCHANGED <<lvars, mvars, tvars, wvars>>)
    \/ (InCapture /\ PageLoop /\ UNCHANGED <<pvars, lvars, mvars, tvars, wvars>>)
    \/ (InCapture /\ AttemptOk /\ UNCHANGED <<pvars, lvars, mvars, tvars, wvars>>)
    \/ (InCapture /\ AttemptFails /\ UNCHANGED <<pvars, lvars, mvars, tvars, wvars>>)
    \/ (InCapture /\ AttemptRaises /\ UNCHANGED <<pvars, lvars, mvars, tvars, wvars>>)
    \/ (InCapture /\ GiveUp /\ UNCHANGED <<pvars, lvars, mvars, tvars, wvars>>)
    \/ (InCapture /\ ParsePage /\ UNCHANGED <<pvars, lvars, mvars, tvars, wvars>>)
    \/ (CallRaised /\ UNCHANGED <<lvars, mvars, tvars, wvars>>)
    \/ (CallReturned /\ UNCHANGED <<lvars, mvars, tvars, wvars>>)
    \/ (FetchBatchRecordsByLot /\ UNCHANGED <<fvars, lvars, mvars, tvars, wvars>>)
    \/ (FetchStructure /\ UNCHANGED <<fvars, lvars, mvars, tvars, wvars>>)
    \/ (FetchDataCaptureByLot /\ UNCHANGED <<fvars, lvars, mvars, tvars, wvars>>)
    \/ (MergeData /\ UNCHANGED <<fvars, lvars, mvars, tvars, wvars>>)
    \/ (WriteArtifact /\ UNCHANGED <<fvars, lvars, mvars, tvars, wvars>>)
    \/ (LogSuccess /\ UNCHANGED <<fvars, lvars, mvars, tvars, wvars>>)
    \/ (SaveCheckpoint /\ UNCHANGED <<fvars, lvars, mvars, tvars, wvars>>)
    \/ (Terminate /\ UNCHANGED <<fvars, lvars, mvars, tvars, wvars>>)
SpecCall == InitRecord /\ [][NextCall]_vars

\* One range run that nothing interrupts, with any --batch_size from 0 on.
InitBatch ==
    /\ InitFiles /\ InitProcess /\ profile = "batch" /\ FetchIdle /\ LoadIdle
    /\ MergeIdle /\ TimeIdle /\ WindowIdle
NextBatch ==
    \/ (StartRange /\ UNCHANGED <<fvars, lvars, mvars, tvars, wvars>>)
    \/ (BatchBegin /\ UNCHANGED <<fvars, lvars, mvars, tvars, wvars>>)
    \/ (RunComplete /\ UNCHANGED <<fvars, lvars, mvars, tvars, wvars>>)
    \/ (RecordBegin /\ UNCHANGED <<fvars, lvars, mvars, tvars, wvars>>)
    \/ (FetchProductionRecordData /\ UNCHANGED <<fvars, lvars, mvars, tvars, wvars>>)
    \/ (FetchBatchRecordsByLot /\ UNCHANGED <<fvars, lvars, mvars, tvars, wvars>>)
    \/ (FetchStructure /\ UNCHANGED <<fvars, lvars, mvars, tvars, wvars>>)
    \/ (FetchDataCaptureByLot /\ UNCHANGED <<fvars, lvars, mvars, tvars, wvars>>)
    \/ (MergeData /\ UNCHANGED <<fvars, lvars, mvars, tvars, wvars>>)
    \/ (WriteArtifact /\ UNCHANGED <<fvars, lvars, mvars, tvars, wvars>>)
    \/ (LogSuccess /\ UNCHANGED <<fvars, lvars, mvars, tvars, wvars>>)
    \/ (SaveCheckpoint /\ UNCHANGED <<fvars, lvars, mvars, tvars, wvars>>)
\* The interpreter runs the loop on: a step that can be taken is taken.
SpecBatch == InitBatch /\ [][NextBatch]_vars /\ WF_vars(NextBatch)

\* Loader runs over a fresh database, in either mode, over the files the
\* extraction side delivers.
InitLoad ==
    /\ InitFiles /\ InitProcess /\ profile = "load" /\ FetchIdle
    /\ InitLoader /\ MergeIdle /\ TimeIdle /\ WindowIdle

NextLoad ==
    \/ (\E mode \in ProcessTypes, delivered \in Deliveries :
            LoadStart(mode, delivered) /\ UNCHANGED <<pvars, fvars, mvars, tvars, wvars>>)
    \/ (NextFile /\ UNCHANGED <<pvars, fvars, mvars, tvars, wvars>>)
    \/ (ReadCsv /\ UNCHANGED <<pvars, fvars, mvars, tvars, wvars>>)
    \/ (UpsertLot /\ UNCHANGED <<pvars, fvars, mvars, tvars, wvars>>)
    \/ (DeleteLotData /\ UNCHANGED <<pvars, fvars, mvars, tvars, wvars>>)
    \/ (InsertLotData /\ UNCHANGED <<pvars, fvars, mvars, tvars, wvars>>)
    \/ (LogSuccessHistory /\ UNCHANGED <<pvars, fvars, mvars, tvars, wvars>>)
    \/ (Commit /\ UNCHANGED <<pvars, fvars, mvars, tvars, wvars>>)
    \/ (Rollback /\ UNCHANGED <<pvars, fvars, mvars, tvars, wvars>>)
    \/ (LogErrorHistory /\ UNCHANGED <<pvars, fvars, mvars, tvars, wvars>>)
    \/ (CommitError /\ UNCHANGED <<pvars, fvars, mvars, tvars, wvars>>)
    \/ (AfterFile /\ UNCHANGED <<pvars, fvars, mvars, tvars, wvars>>)
    \/ (ConnectionLost /\ UNCHANGED <<pvars, fvars, mvars, tvars, wvars>>)
    \/ (ProcessKilled /\ UNCHANGED <<pvars, fvars, mvars, tvars, wvars>>)

SpecLoad == InitLoad /\ [][NextLoad]_vars

\* One _merge_data call of either pipeline over any capture frame and any
\* structure frames.
InitMerge ==
    /\ InitFiles /\ InitProcess /\ profile = "merge" /\ FetchIdle /\ LoadIdle
    /\ mpc = "merge"
    /\ merge_variant \in {"bulk", "incr"}
    /\ capture_df \in CaptureFrames
    /\ unit_df \in UnitFrames
    /\ operation_df \in OperationFrames
    /\ phase_df \in PhaseFrames
    /\ MergeLocalsInit
    /\ TimeIdle /\ WindowIdle

NextMerge ==
    \/ (MergeStructure /\ UNCHANGED <<pvars, fvars, lvars, tvars, wvars>>)
    \/ (CleanAndFilter /\ UNCHANGED <<pvars, fvars, lvars, tvars, wvars>>)
    \/ (WriteCsv /\ UNCHANGED <<pvars, fvars, lvars, tvars, wvars>>)

SpecMerge == InitMerge /\ [][NextMerge]_vars

\* One reformat_datetime call on any text of the column.
InitTime ==
    /\ InitFiles /\ InitProcess /\ profile = "time" /\ FetchIdle /\ LoadIdle
    /\ MergeIdle /\ WindowIdle
    /\ tpc = "call"
    /\ date_str \in DateTexts
    /\ formatted = <<>>

NextTime ==
    \/ (ReformatDatetime /\ UNCHANGED <<pvars, fvars, lvars, mvars, wvars>>)

SpecTime == InitTime /\ [][NextTime]_vars

\* Successive runs of incremental_fetch.py on a fresh installation: no
\* windows file yet.
InitWindow ==
    /\ InitFiles /\ InitProcess /\ profile = "window" /\ FetchIdle /\ LoadIdle
    /\ MergeIdle /\ TimeIdle
    /\ wpc = "idle"
    /\ window_csv = <<>>
    /\ window = <<>>
    /\ record_ids = <<>>
    /\ source = "none"
    /\ now_hour = 0
    /\ wruns = 0
    /\ fetched = <<>>

NextWindow ==
    \/ (WindowStart /\ UNCHANGED <<pvars, fvars, lvars, mvars, tvars>>)
    \/ (AppendNextSixHourWindow /\ UNCHANGED <<pvars, fvars, lvars, mvars, tvars>>)
    \/ (FetchProductionRecordIds /\ UNCHANGED <<pvars, fvars, lvars, mvars, tvars>>)
    \/ (Main /\ UNCHANGED <<pvars, fvars, lvars, mvars, tvars>>)

SpecWindow == InitWindow /\ [][NextWindow]_vars

----------------------------------------------------------------------------
\* Properties

IsPrefix(s, t) == Len(s) <= Len(t) /\ \A i \in 1..Len(s) : s[i] = t[i]
Pos(e) == IF \E i \in 1..Len(reqs) : reqs[i] = e
          THEN CHOOSE i \in 1..Len(reqs) : reqs[i] = e ELSE 0
\* a process_record call has been made and has returned
CallOver == pc \in {"batch", "loop", "done", "aborted"} /\ production_record_id # -1

\* C1: an identifier that has a Success entry in the ledger when its processing
\* begins is not fetched again: processing it issues no request to any endpoint.
C1_NeverRefetched == had_success => reqs = <<>>

\* C2: in a run started without --start, every identifier between start_id and
\* the persisted last_processed_id has had process_record return and has its
\* ledger entry in the ledger file.
C2_Resumable ==
    (variant = "bulk" /\ pc # "idle" /\ start_arg = <<>>) =>
        \A i \in Ids :
            (start_id <= i /\ i <= load_checkpoint(ckptFile)) =>
                (i \in done_ids /\ HasEntry(ledgerFile, i))

\* C3: every start of a range driver computes the resume point from --start
\* and the checkpoint file as it is then: checkpoint + 1 when --start is absent,
\* 0 when the file is missing or corrupt, --start when given, never below 0;
\* and the first identifier processed is that resume point.
C3_Expected(arg, file) ==
    LET loaded == IF file.kind = "ok" THEN file.id ELSE -1
        s == IF arg = <<>> THEN loaded + 1 ELSE arg[1]
    IN  IF s <= 0 THEN 0 ELSE s
C3_ResumePoint ==
    [][ /\ (pc \in StoppedPcs /\ pc' = "loop" /\ variant' \in RangeVariants)
            => start_id' = C3_Expected(start_arg', ckptFile)
        /\ (variant \in RangeVariants /\ calls = <<>> /\ calls' # <<>>)
            => calls'[1] = start_id ]_vars
\* a run without --start resumes right after the saved checkpoint
C3_Witness ==
    /\ variant = "bulk" /\ start_arg = <<>>
    /\ ckptFile = Checkpoint(0) /\ start_id = 1 /\ calls = <<1>>

\* C4: is_already_processed(id) is true exactly when the ledger holds a Success
\* entry for id.
C4_IsDoneIffSuccess ==
    \A id \in Ids : is_already_processed(tracking_df, id) <=> HasSuccess(tracking_df, id)

\* C5: in a run over the same range as the run before it, an identifier that
\* has a Success entry is skipped: no request is made for it and the run appends
\* no ledger entry for it.
C5_RerunSkipsSuccess ==
    (same_range /\ had_success) =>
        (reqs = <<>> /\ Len(tracking_df) = len_at_call)

\* C6: in bulk_fetch.py and incremental_fetch.py no exception leaves
\* process_record, and run() calls it once for each identifier of its work list
\* in order, whatever the outcome of each identifier; a run that completes has
\* called it for the whole list.
WorkList == IF variant = "incr" THEN id_list ELSE Range(start_id, end_id)
C6_BatchNotAborted ==
    (variant \in {"bulk", "incr"} /\ pc # "idle") =>
        /\ ~escaped
        /\ IsPrefix(calls, WorkList)
        /\ (pc = "done" => calls = WorkList)
\* the run went on to identifier 1 after an exception on identifier 0
C6_Witness ==
    /\ variant = "bulk" /\ pc = "done" /\ calls = <<0, 1>>
    /\ Len(tracking_df) = 2
    /\ tracking_df[1] = Entry(0, NoLot, "Fail", ExcText)
    /\ tracking_df[2].id = 1

\* C7 as stated: once the call for an identifier with capture rows has
\* returned, the secondary lookup was called exactly when the primary lookup
\* returned zero rows.
C7_SecondaryIffPrimaryEmpty ==
    (CallOver /\ record_df > 0) =>
        (Pos("data_captures_by_lot") > 0 <=> from_primary = <<<<>>>>)

\* C7: for an identifier with capture rows the primary lookup is the first
\* lookup; the secondary lookup is called only after the primary returned zero
\* rows; when the primary returned zero rows the secondary is called next in
\* incremental_fetch.py, and in the other drivers after the structure fetch,
\* unless that fetch raised; a Fail entry naming both calls as empty is
\* recorded only after both were called and both returned zero rows.
C7_FallbackOrdering ==
    /\ (record_df > 0 /\ Len(reqs) >= 2) => reqs[2] = "batch_records"
    /\ Pos("data_captures_by_lot") > 0 =>
          /\ 0 < Pos("batch_records")
          /\ Pos("batch_records") < Pos("data_captures_by_lot")
          /\ from_primary = <<<<>>>>
    /\ (from_primary = <<<<>>>> /\ variant = "incr" /\ pc # "secondary") =>
          (Pos("data_captures_by_lot") = Pos("batch_records") + 1)
    /\ (from_primary = <<<<>>>> /\ variant # "incr"
            /\ pc \notin {"structure", "secondary"}) =>
          \/ Pos("data_captures_by_lot") = Pos("structures") + 1
          \/ /\ Last(reqs) = "structures"
             /\ Last(tracking_df) = Entry(production_record_id, NoLot, "Fail", ExcText)
    /\ \A k \in 1..Len(tracking_df) :
          tracking_df[k].reason \in {BothEmptyReason(v) : v \in Variants} =>
              /\ tracking_df[k] = Entry(production_record_id, lot_number, "Fail",
                                        BothEmptyReason(variant))
              /\ Pos("batch_records") > 0 /\ Pos("data_captures_by_lot") > 0
              /\ from_primary = <<<<>>>> /\ from_secondary = <<>>
\* both lookups were consulted, in order, and both were empty
C7_Witness ==
    /\ CallOver /\ variant = "bulk"
    /\ reqs = <<"data_captures", "batch_records", "structures", "data_captures_by_lot">>
    /\ Last(tracking_df).reason = BothEmptyReason("bulk")

\* C8 as stated: once the call has returned after the primary lookup returned
\* no rows and the secondary some, the identifier is recorded as Success and
\* the artifact's lot summary equals the values of the secondary result.
C8_SummaryEqualsSecondary ==
    (CallOver /\ from_secondary # <<>>) =>
        /\ Last(tracking_df).status = "Success"
        /\ artifacts[lot_number].summary =
              [MasterTemplateName |-> from_secondary[1].masterTemplateName,
               LotNumber |-> from_secondary[1].lotNumber,
               ProductID |-> from_secondary[1].productId,
               ProductionRecordStatus |-> from_secondary[1].productionRecordStatus]

\* C8: when the primary lookup returned no rows and the secondary some, the
\* lot summary of the merged frame is the first secondary row's
\* masterTemplateName, lotNumber, productId and productionRecordStatus with
\* surrounding blanks stripped; the call never records the both-empty failure;
\* it records Success when no step raises, and then the artifact of the lot
\* holds that summary.
C8_Expected ==
    [MasterTemplateName |-> Strip(from_secondary[1].masterTemplateName),
     LotNumber |-> Strip(from_secondary[1].lotNumber),
     ProductID |-> Strip(from_secondary[1].productId),
     ProductionRecordStatus |-> Strip(from_secondary[1].productionRecordStatus)]
C8_FallbackSummary ==
    from_secondary # <<>> =>
        /\ from_primary = <<<<>>>>
        /\ merged_df # NoFrame => merged_df.summary = C8_Expected
        /\ pc \in {"write", "log_success"} => merged_df # NoFrame
        /\ \A k \in 1..Len(tracking_df) :
              \/ /\ tracking_df[k] = Entry(production_record_id, lot_number, "Success", "")
                 /\ artifacts[lot_number].summary = C8_Expected
              \/ tracking_df[k] = Entry(production_record_id, NoLot, "Fail", ExcText)
        /\ (CallOver /\ \A k \in 1..Len(tracking_df) : tracking_df[k].reason # ExcText)
              => Last(tracking_df).status = "Success"
\* a padded first row of two different secondary rows ends up, stripped, in
\* the artifact of a Success
C8_Witness ==
    /\ CallOver /\ from_primary = <<<<>>>>
    /\ from_secondary = <<CaptureByLotRow1, CaptureByLotRow2>>
    /\ Last(tracking_df).status = "Success"
    /\ artifacts[lot_number].summary.MasterTemplateName = <<"T2">>
    /\ artifacts[lot_number].summary.ProductionRecordStatus = <<"IN_PROGRESS">>

\* C9: against a source whose pages 0..k-2 carry last = false and whose page
\* k-1 carries last = true or no last flag, in either recognised envelope,
\* the pages requested are always 0, 1, ... in increasing order, each once,
\* none beyond page k-1; and a call in which no page request ran out of
\* retries has requested exactly pages 0..k-1 and returns the concatenation of
\* their content in page order.
C9_IsLastPage(k) ==
    /\ k \in 1..Len(pages)
    /\ pages[k].last # "false"
    /\ \A j \in 1..(k - 1) : pages[j].last = "false"
    /\ \A j \in 1..k : pages[j].shape \in {"content", "pageResult"}
RECURSIVE C9_Concat(_)
C9_Concat(k) ==
    IF k = 0 THEN <<>>
    ELSE C9_Concat(k - 1) \o [j \in 1..pages[k].n |-> <<k - 1, j>>]
C9_Pagination ==
    \A k \in 1..Len(pages) :
        C9_IsLastPage(k) =>
            /\ IsPrefix(page_calls, [i \in 1..k |-> i - 1])
            /\ (fpc = "done" /\ response # NoResponse) =>
                  /\ page_calls = [i \in 1..k |-> i - 1]
                  /\ result = C9_Concat(k)
\* three pages, false / false / absent, both envelopes, one retried request
C9_Witness ==
    /\ fpc = "done" /\ Len(pages) = 3
    /\ pages[1].shape = "content" /\ pages[2].shape = "pageResult"
    /\ pages[1].last = "false" /\ pages[2].last = "false" /\ pages[3].last = "absent"
    /\ page_calls = <<0, 1, 2>>
    /\ result = <<<<0, 1>>, <<1, 1>>, <<2, 1>>>>

\* C10: one perform_get_request call makes at most Retries attempts, none
\* after a success; every failed attempt is followed by one sleep; it returns
\* the response of its first successful attempt; it returns None only after
\* Retries failed attempts; and it always returns or raises.
C10_Attempts ==
    /\ Len(attempts_log) <= Retries
    /\ \A i \in 1..(Len(attempts_log) - 1) : attempts_log[i] = "fail"
    /\ slept = Cardinality({i \in 1..Len(attempts_log) : attempts_log[i] = "fail"})
    /\ fpc = "parse" =>
          /\ attempts_log # <<>> /\ Last(attempts_log) = "ok"
          /\ response = pages[page + 1]
    /\ (fpc = "done" /\ response = NoResponse) =>
          attempts_log = [i \in 1..Retries |-> "fail"]
C10_BoundedRetry ==
    /\ [](C10_Attempts)
    /\ (fpc = "get") ~> (fpc # "get")
\* a request that succeeded on its last permitted attempt
C10_Witness ==
    /\ fpc = "parse"
    /\ attempts_log = <<"fail", "fail", "ok">>
    /\ slept = 2

\* C11: a fetch_paginated_data call in which a page request ran out of
\* retries returns no rows.
C11_ExhaustionReturnsNoRows ==
    (fpc = "done" /\ response = NoResponse) => result = <<>>

----------------------------------------------------------------------------
\* Properties of the loader

\* The process_csv_file call that began last is over: it returned, or an
\* exception left it.
LoadCallOver == lpc \in {"returned", "escaped"}

\* C12: when a step of process_csv_file raised, after the call lots and
\* lot_data are as before the call, file_processing_history has gained exactly
\* one row, of status error, and the call returned 0.
C12_LoaderRollback ==
    (LoadCallOver /\ raised) =>
        /\ db.lots = db_before.lots
        /\ db.lot_data = db_before.lot_data
        /\ Len(db.history) = Len(db_before.history) + 1
        /\ SubSeq(db.history, 1, Len(db_before.history)) = db_before.history
        /\ db.history[Len(db.history)].status = "error"
        /\ lpc = "returned"
        /\ record_count = 0

\* The process_csv_file calls that have a success row, detail rows, a lot row
SuccessAttempts(d) ==
    {d.history[i].att : i \in {j \in 1..Len(d.history) : d.history[j].status = "success"}}
DataAttempts(d) == {d.lot_data[i].att : i \in 1..Len(d.lot_data)}
LotAttempts(d) == {r.last_updated : r \in d.lots}
RowSet(seq) == {seq[i] : i \in 1..Len(seq)}

\* C13: the committed tables change for one artifact all at once: a step
\* commits the success history row of a call exactly when it commits that
\* call's detail rows and lot row, a detail row disappears only in such a step,
\* and so does every step up to any process termination.
C13_LoaderAtomicity ==
    [][LET s == SuccessAttempts(db') \ SuccessAttempts(db)
       IN  /\ DataAttempts(db') \ DataAttempts(db) = s
           /\ LotAttempts(db') \ LotAttempts(db) = s
           /\ (RowSet(db.lot_data) \ RowSet(db'.lot_data) # {}) => s # {}
           /\ \A a \in s :
                \E i \in 1..Len(db'.history) :
                    /\ db'.history[i].att = a
                    /\ db'.history[i].status = "success"
                    /\ Cardinality({k \in 1..Len(db'.lot_data) : db'.lot_data[k].att = a})
                         = db'.history[i].record_count
                    /\ \E r \in db'.lots : /\ r.lot_number = db'.history[i].lot_number
                                           /\ r.last_updated = a
      ]_vars

\* An earlier call was committed and the process was terminated inside the
\* transaction of a later call, after its file was read.
C13_Witness ==
    /\ lpc = "killed"
    /\ SuccessAttempts(db) # {}
    /\ attempt \notin SuccessAttempts(db)
    /\ csv_df # <<>>
    /\ process_type = "incremental_load"

\* A detail row without its row id and timestamps
DetailOf(r) ==
    [lot_number |-> r.lot_number, master_template_name |-> r.master_template_name,
     structure_label |-> r.structure_label, description |-> r.description,
     input_data_value |-> r.input_data_value,
     data_capture_time |-> r.data_capture_time, data_hash |-> r.data_hash]
\* The detail rows of one lot, each as often as the table holds it
LotRows(d, lot) ==
    LET rows == SelectSeq(d.lot_data, LAMBDA r : r.lot_number = lot)
    IN  [i \in 1..Len(rows) |-> DetailOf(rows[i])]

\* The last committed call was a successful incremental load of the artifact
\* the current call is loading.
LoadedAgain ==
    /\ db.history # <<>>
    /\ LET last == db.history[Len(db.history)]
       IN  /\ last.status = "success"
           /\ last.process_type = "incremental_load"
           /\ last.att >= 1
           /\ artifact_log[last.att] = artifact_log[attempt]

\* C14: the commit of an incremental load of an artifact that the previous
\* incremental load has just loaded leaves the detail rows of the lot (without
\* row ids and timestamps) as that previous load left them.
C14_IdempotentReplace ==
    [][(/\ lpc = "commit" /\ lpc' = "returned"
        /\ process_type = "incremental_load"
        /\ LoadedAgain)
       => LotRows(db', lot_info.lot_number) = LotRows(db, lot_info.lot_number)]_vars

\* The same artifact was loaded twice in a row in incremental mode, over
\* tables that held other rows of the lot before the first load.
C14_Witness ==
    /\ lpc = "returned"
    /\ record_count > 0
    /\ process_type = "incremental_load"
    /\ Len(db.history) >= 3
    /\ LET n == Len(db.history)
       IN  /\ db.history[n].att = attempt
           /\ db.history[n].status = "success"
           /\ db.history[n - 1].status = "success"
           /\ db.history[n - 1].process_type = "incremental_load"
           /\ db.history[n - 1].att >= 1
           /\ artifact_log[db.history[n - 1].att] = artifact_log[attempt]
           /\ db.history[1].lot_number = db.history[n].lot_number

\* C15: the committed lot_data table never holds two rows of the same lot
\* with the same data_hash.
C15_HashDeduplication ==
    \A i, j \in 1..Len(db.lot_data) :
        (/\ db.lot_data[i].lot_number = db.lot_data[j].lot_number
         /\ db.lot_data[i].data_hash = db.lot_data[j].data_hash) => i = j

LotRowsOf(d, lot) == {r \in d.lots : r.lot_number = lot}

\* C16: lots holds at most one row per lot_number; the commit of a load
\* inserts the row of a lot that had none, and for a lot that had one sets
\* product_id, product_name, status and last_updated from the first row of
\* the artifact and keeps first_loaded.
C16_LotUpsert ==
    [][/\ \A r1, r2 \in db'.lots : r1.lot_number = r2.lot_number => r1 = r2
       /\ (lpc = "commit" /\ lpc' = "returned") =>
            LET first_row == artifact_log[attempt].rows[1]
                before == LotRowsOf(db, first_row.lot)
                after == LotRowsOf(db', first_row.lot)
            IN  /\ Cardinality(after) = 1
                /\ \A r \in after :
                    /\ r.product_id = first_row.product_id
                    /\ r.product_name = first_row.product_name
                    /\ r.status = first_row.status
                    /\ r.last_updated = attempt
                    /\ IF before = {} THEN r.first_loaded = attempt
                       ELSE \A o \in before : r.first_loaded = o.first_loaded
                /\ \A r \in db'.lots : r.lot_number # first_row.lot => r \in db.lots
      ]_vars

\* A later load of a lot has changed its product columns.
C16_Witness ==
    /\ lpc = "returned"
    /\ record_count > 0
    /\ \E o \in db_before.lots, r \in db.lots :
        /\ o.lot_number = r.lot_number
        /\ r.last_updated = attempt
        /\ r.first_loaded < attempt
        /\ r.product_id # o.product_id

\* C17: when a process_csv_file call on a file of the directory is over,
\* file_processing_history holds the rows it held before the call, unchanged,
\* and exactly one more, of status success or error.
C17_OneHistoryRowPerAttempt ==
    LoadCallOver =>
        /\ Len(db.history) = Len(db_before.history) + 1
        /\ SubSeq(db.history, 1, Len(db_before.history)) = db_before.history
        /\ db.history[Len(db.history)].status \in {"success", "error"}

----------------------------------------------------------------------------
\* Properties of _merge_data

\* The merge of one record is over: the file was written, or the record was
\* logged as Fail.
MergeOver == mpc \in {"written", "failed"}

\* The first level whose join cannot be done, "" when all three can
FailedLevel ==
    IF unit_df.kind # "table" THEN "Unit"
    ELSE IF operation_df.kind # "table" THEN "Operation"
    ELSE IF phase_df.kind # "table" THEN "Phase"
    ELSE ""

\* C18: when the join of a level fails, the record is still written and
\* logged as Success, the columns of that level and of the deeper levels are
\* empty in every row and the columns of the shallower levels hold titles of
\* the structure tables, in both pipelines and also for structure frames that
\* are empty.
C18_CascadingDegradation ==
    (MergeOver /\ FailedLevel # "") =>
        /\ mpc = "written"
        /\ record_status = "Success"
        /\ \A i \in 1..Len(artifact_csv) :
            /\ artifact_csv[i].Phase = <<>>
            /\ IF FailedLevel = "Phase"
               THEN \E k \in 1..Len(operation_df.rows) :
                        /\ operation_df.rows[k].operationId
                             = capture_df[artifact_csv[i].StructureLabel].operationId
                        /\ operation_df.rows[k].Operation = artifact_csv[i].Operation
                    \/ /\ artifact_csv[i].Operation = <<>>
                       /\ capture_df[artifact_csv[i].StructureLabel].operationId = 2
               ELSE artifact_csv[i].Operation = <<>>
            /\ IF FailedLevel = "Unit"
               THEN artifact_csv[i].Unit = <<>>
               ELSE \E k \in 1..Len(unit_df.rows) :
                        unit_df.rows[k].Unit = artifact_csv[i].Unit

\* The three joins were done: _merge_data is past its try blocks without a
\* handler having run.
Joined == mpc \in {"clean", "write", "written"} /\ FailedLevel = ""

\* No structure table holds two rows with the same key
UniqueStructureKeys ==
    /\ \A i, j \in 1..Len(unit_df.rows) :
        KeyOf("Unit", unit_df.rows[i]) = KeyOf("Unit", unit_df.rows[j]) => i = j
    /\ \A i, j \in 1..Len(operation_df.rows) :
        KeyOf("Operation", operation_df.rows[i]) = KeyOf("Operation", operation_df.rows[j])
            => i = j
    /\ \A i, j \in 1..Len(phase_df.rows) :
        KeyOf("Phase", phase_df.rows[i]) = KeyOf("Phase", phase_df.rows[j]) => i = j

\* Capture row n has a Unit row and no Operation row.
UnmatchedOperation(n) ==
    /\ \E k \in 1..Len(unit_df.rows) :
        /\ unit_df.rows[k].masterTemplateId = capture_df[n].masterTemplateId
        /\ unit_df.rows[k].unitProcedureId = capture_df[n].unitProcedureId
    /\ \A k \in 1..Len(operation_df.rows) :
        \/ operation_df.rows[k].masterTemplateId # capture_df[n].masterTemplateId
        \/ operation_df.rows[k].unitProcedureId # capture_df[n].unitProcedureId
        \/ operation_df.rows[k].operationId # capture_df[n].operationId

\* C19: after the joins a capture row with a Unit row and no Operation row is
\* still there, with the title of its Unit row and no Operation value, and in
\* the written file (when its actor is kept) its Operation is empty; with
\* unique structure keys the joined frame has as many rows as the capture
\* frame.
C19_UnmatchedKeyKept ==
    Joined =>
        /\ \A n \in 1..Len(capture_df) :
            UnmatchedOperation(n) =>
                /\ \E i \in 1..Len(joined_df) :
                    /\ joined_df[i].orderLabel = n
                    /\ joined_df[i].Operation = NaN
                    /\ \E k \in 1..Len(unit_df.rows) :
                        /\ unit_df.rows[k].unitProcedureId = capture_df[n].unitProcedureId
                        /\ unit_df.rows[k].Unit = joined_df[i].Unit
                /\ (mpc = "written" /\ capture_df[n].userName = <<"jdoe">>) =>
                    \E i \in 1..Len(artifact_csv) :
                        /\ artifact_csv[i].StructureLabel = n
                        /\ artifact_csv[i].Operation = <<>>
                        /\ artifact_csv[i].Unit \in {<<"U1">>, <<"U1b">>}
        /\ UniqueStructureKeys => Len(joined_df) = Len(capture_df)

\* A file was written with a row of an operation the structure does not know
\* next to a row of a known operation.
C19_Witness ==
    /\ mpc = "written"
    /\ FailedLevel = ""
    /\ UniqueStructureKeys
    /\ \E i, j \in 1..Len(artifact_csv) :
        /\ artifact_csv[i].Operation = <<>>
        /\ artifact_csv[i].Unit = <<"U1">>
        /\ capture_df[artifact_csv[i].StructureLabel].operationId = 2
        /\ artifact_csv[j].Operation = <<"O1">>

\* The first token of a text that is not a blank is the reserved prefix.
VODAfterBlanks(value) ==
    \E i \in 1..Len(value) :
        /\ value[i] = "VOD_"
        /\ \A j \in 1..(i - 1) : value[j] = Blank

\* C20 as stated: no row of a written file has a Performed By that starts
\* with VOD_, and every capture row whose Performed By does not start with
\* VOD_ has its row in the file.
C20_ActorFilter ==
    mpc = "written" =>
        /\ \A i \in 1..Len(artifact_csv) : ~StartsWithVOD(artifact_csv[i].PerformedBy)
        /\ \A n \in 1..Len(capture_df) :
            ~StartsWithVOD(capture_df[n].userName) =>
                \E i \in 1..Len(artifact_csv) : artifact_csv[i].StructureLabel = n

\* C20, amended: the prefix test is made on the stripped value.  No row of a
\* written file has a Performed By that starts with VOD_; a capture row has
\* its row in the file exactly when its Performed By, leading blanks removed,
\* does not start with VOD_.
C20_ActorFilterStripped ==
    mpc = "written" =>
        /\ \A i \in 1..Len(artifact_csv) :
            /\ artifact_csv[i].PerformedBy # <<>>
            /\ artifact_csv[i].PerformedBy[1] \notin {"VOD_", Blank}
        /\ \A n \in 1..Len(capture_df) :
            (~VODAfterBlanks(capture_df[n].userName)) <=>
                \E i \in 1..Len(artifact_csv) : artifact_csv[i].StructureLabel = n

\* A file was written for a record with a row of jdoe, which is in the file,
\* and a row of a system actor written with a leading blank, which is not.
C20_Witness ==
    /\ mpc = "written"
    /\ \E n, m \in 1..Len(capture_df) :
        /\ capture_df[n].userName = <<"jdoe">>
        /\ \E i \in 1..Len(artifact_csv) : artifact_csv[i].StructureLabel = n
        /\ capture_df[m].userName = <<Blank, "VOD_", "svc">>
        /\ \A i \in 1..Len(artifact_csv) : artifact_csv[i].StructureLabel # m

----------------------------------------------------------------------------
\* Properties of reformat_datetime

ExampleInput ==
    <<"2", "0", "2", "4", "-", "0", "3", "-", "0", "1", "T", "1", "8", ":", "0", "5",
      ":", "0", "0", "Z">>
SummerInput ==
    <<"2", "0", "2", "4", "-", "0", "7", "-", "0", "4", "T", "0", "4", ":", "0", "0",
      ":", "0", "0", "Z">>
\* The text is one of the model's ISO timestamps of a day that exists.
Parsable(s) == Len(s) >= 19 /\ SubSeq(s, 6, 10) # <<"0", "2", "-", "3", "0">>

\* C21 as stated: for 2024-03-01T18:05:00Z the result is 3/1/2024 13:5.
C21_Reformat ==
    (tpc = "done" /\ date_str = ExampleInput) =>
        formatted = <<"3", "/", "1", "/", "2", "0", "2", "4", " ", "1", "3", ":", "5">>

\* C21, amended: the minute keeps two digits and the zone follows daylight
\* time.  For 2024-03-01T18:05:00Z the result is 3/1/2024 13:05, for
\* 2024-07-04T04:00:00Z it is 7/4/2024 0:00; month, day and hour never start
\* with 0 unless they are 0, the text ends with a colon and two digits, and a
\* text that does not parse is returned as it is.
C21_ReformatPadded ==
    tpc = "done" =>
        /\ date_str = ExampleInput =>
            formatted = <<"3", "/", "1", "/", "2", "0", "2", "4", " ", "1", "3", ":",
                          "0", "5">>
        /\ date_str = SummerInput =>
            formatted = <<"7", "/", "4", "/", "2", "0", "2", "4", " ", "0", ":", "0", "0">>
        /\ ~Parsable(date_str) => formatted = date_str
        /\ Parsable(date_str) =>
            /\ formatted[1] # "0"
            /\ \A i \in 1..(Len(formatted) - 2) :
                (formatted[i] \in {"/", " "} /\ formatted[i + 1] = "0")
                    => formatted[i + 2] = ":"
            /\ formatted[Len(formatted) - 2] = ":"
            /\ formatted[Len(formatted) - 1] = date_str[15]
            /\ formatted[Len(formatted)] = date_str[16]
            /\ Cardinality({i \in 1..Len(formatted) : formatted[i] = "/"}) = 2

\* The example of the claim was reformatted.
C21_Witness ==
    /\ tpc = "done"
    /\ date_str = ExampleInput
    /\ formatted # date_str

----------------------------------------------------------------------------
\* C22: a failed checkpoint write never aborts the run: on a step of run()
\* where save_checkpoint did not write the new checkpoint, no exception
\* escapes, the checkpoint file keeps the value it had, the ledger file is
\* unchanged and run() goes back to its loop for the next batch.
CheckpointWriteFailed ==
    /\ pc = "batch" /\ batch_ids = <<>> /\ pc' # "batch"
    /\ ckptFile' # Checkpoint(current_batch_end)
C22_FailedCheckpointWrite ==
    [][ CheckpointWriteFailed =>
            /\ pc' = "loop" /\ ~escaped'
            /\ ckptFile' = ckptFile
            /\ ledgerFile' = ledgerFile ]_vars

\* C23: in bulk_fetch.py and incremental_fetch.py the status ledger is
\* append-only and persisted by full rewrite: while a run is in progress the
\* ledger file is a prefix of the in-memory ledger; a step that changes the
\* in-memory ledger appends exactly one entry to it, and leaves the ledger
\* file either as it was (the failed persist is only logged) or equal to the
\* in-memory ledger.
LedgerInUse == pc \in RunningPcs /\ variant \in {"bulk", "incr"}
C23_DurablePrefix == LedgerInUse => IsPrefix(ledgerFile, tracking_df)
C23_AppendOnly ==
    (LedgerInUse /\ LedgerInUse' /\ tracking_df' # tracking_df) =>
        /\ Len(tracking_df') = Len(tracking_df) + 1
        /\ IsPrefix(tracking_df, tracking_df')
        /\ ledgerFile' \in {ledgerFile, tracking_df'}
        /\ ~escaped'
C23_LedgerAppendOnly ==
    [][ C23_DurablePrefix' /\ C23_AppendOnly ]_vars

----------------------------------------------------------------------------
\* Properties of the loader's file handling

FilesOf(listing) == {listing[k] : k \in 1..Len(listing)}
\* the loop body runs after process_csv_file returned
AfterCall == lpc = "returned" /\ lpc' = "loop"

\* C24: when process_csv_file returned 0 the loader neither archives nor
\* deletes the file; a file is copied to processed_data only after a call that
\* returned a positive count, a file leaves its directory only then and only
\* in incremental mode, and a loader run lists every file that is in the
\* directory of its mode, so a file whose load failed is found again.
C24_FailedArtifactStays ==
    [][ /\ (AfterCall /\ record_count = 0) =>
                (dirs' = dirs /\ processed_dir' = processed_dir)
        /\ (processed_dir' # processed_dir) =>
                /\ AfterCall /\ record_count > 0
                /\ processed_dir' = processed_dir \cup {file_path}
        /\ \A d \in DOMAIN dirs : \A f \in LoadFiles :
                (dirs[d][f] # Absent /\ dirs'[d][f] = Absent) =>
                    /\ AfterCall /\ record_count > 0
                    /\ process_type = "incremental_load"
                    /\ d = "new_data" /\ f = file_path
        /\ (loads' # loads) =>
                Present(dirs[DirOf(process_type')]) \subseteq FilesOf(csv_files') ]_vars

\* A file whose first load ended in the error path is read again by the next
\* run of the same mode.
C24_Witness ==
    /\ loads = 2 /\ lpc = "read"
    /\ \E k \in 1..Len(db.history) :
        /\ db.history[k].status = "error"
        /\ db.history[k].filename = file_path
        /\ db.history[k].process_type = process_type
        /\ db.history[k].att < attempt
    /\ file_path \notin processed_dir

----------------------------------------------------------------------------
\* Properties of the order of events inside a run

Requested(endpoint) == \E k \in 1..Len(reqs) : reqs[k] = endpoint
\* the identifiers whose process_record call has returned
Resolved == IF pc \in RecordPcs THEN Len(calls) - 1 ELSE Len(calls)
C25_OneEntryPerCall ==
    (variant \in {"bulk", "incr"} /\ pc \in RunningPcs \cup {"done"}) =>
        /\ Len(tracking_df) = Resolved
        /\ \A k \in 1..Resolved : tracking_df[k].id = calls[k]
C25_Order ==
    variant \in {"bulk", "incr"} =>
        /\ (reqs' # reqs /\ reqs' # <<>>) =>
                /\ pc \in RecordPcs
                /\ Len(tracking_df) = Len(calls) - 1
                /\ reqs'[1] = "data_captures"
        /\ (merged_df' # merged_df /\ merged_df' # NoFrame) =>
                /\ Requested("batch_records") /\ Requested("structures")
                /\ reqs' = reqs
                /\ artifacts' = artifacts /\ tracking_df' = tracking_df
        /\ (artifacts' # artifacts) =>
                /\ merged_df.by = production_record_id
                /\ artifacts' = [artifacts EXCEPT ![lot_number] = merged_df]
                /\ reqs' = reqs /\ tracking_df' = tracking_df
        /\ (Len(tracking_df') > Len(tracking_df)
              /\ tracking_df'[Len(tracking_df')].status = "Success") =>
                /\ tracking_df'[Len(tracking_df')].id = production_record_id
                /\ artifacts[lot_number].by = production_record_id
                /\ artifacts' = artifacts /\ reqs' = reqs

\* C25: in bulk_fetch.py and incremental_fetch.py, within a run, for each
\* identifier the capture fetch comes first, the merge comes after the lookup
\* and the structure fetch, the file is written after the merge and before
\* the ledger entry; a Success entry is appended only after the file of that
\* identifier was written; every returned call has appended one entry, in
\* call order, and a request is issued only when every earlier identifier of
\* the run has its entry.
C25_PerIdentifierOrdering ==
    [][ C25_OneEntryPerCall' /\ C25_Order ]_vars

\* A run resolved identifier 0 with a written file and then identifier 1.
C25_Witness ==
    /\ variant = "bulk" /\ pc = "done" /\ calls = <<0, 1>>
    /\ Len(tracking_df) = 2
    /\ tracking_df[1].id = 0 /\ tracking_df[1].status = "Success"
    /\ tracking_df[2].id = 1 /\ tracking_df[2].status = "Success"
    /\ \E l \in CaptureLots : artifacts[l].by = 1

----------------------------------------------------------------------------
\* C26: in bulk_fetch.py and incremental_fetch.py, when the capture fetch
\* returned no rows, or rows none of which has current = true, the call has
\* appended exactly one entry, (id, None, Fail, 'fetch_production_record_data
\* returned empty'), has requested the data-captures endpoint only (neither
\* lookup, no structure) and has written no file.
NoCurrentRow ==
    /\ from_capture # <<>>
    /\ \A k \in 1..Len(from_capture[1]) : ~from_capture[1][k].current
C26_ZeroCaptureRowsTerminal ==
    (CallOver /\ variant \in {"bulk", "incr"} /\ NoCurrentRow) =>
        /\ Len(tracking_df) = len_at_call + 1
        /\ tracking_df[Len(tracking_df)]
             = Entry(production_record_id, NoLot, "Fail", EmptyReason)
        /\ reqs = <<"data_captures">>
        /\ \A l \in CaptureLots : artifacts[l] = NoFile

\* A call whose capture rows were all superseded has returned.
C26_Witness ==
    /\ CallOver /\ variant = "bulk"
    /\ from_capture = <<<<CaptureDataRow(FALSE), CaptureDataRow(FALSE)>>>>
    /\ Len(tracking_df) = 1

----------------------------------------------------------------------------
\* Page k is the first page with neither key and the loop reaches it: every
\* page before it has one of the two envelopes and last = false.
FirstUnrecognized(k) ==
    /\ k \in 1..Len(pages)
    /\ pages[k].shape = "other"
    /\ \A j \in 1..(k - 1) :
        pages[j].shape \in {"content", "pageResult"} /\ pages[j].last = "false"

\* C27: a page response with neither a content key nor a pageResult key
\* stops the loop of fetch_paginated_data: no page after it is requested, the
\* envelope handling raises nothing, and the call returns the rows of the
\* pages before it (none when it is page 0).
C27_Stops ==
    \A k \in 1..Len(pages) :
        FirstUnrecognized(k) =>
            /\ IsPrefix(page_calls, [i \in 1..k |-> i - 1])
            /\ (fpc = "done" /\ response = pages[k]) =>
                  /\ page_calls = [i \in 1..k |-> i - 1]
                  /\ result = C9_Concat(k - 1)
\* (a step to "raised" from the parse position is json.loads failing on a body
\* that is no envelope at all)
C27_HandledSilently ==
    (fpc = "parse" /\ response.shape = "other") =>
        \/ fpc' \in {"parse", "raised"}
        \/ fpc' = "done" /\ result' = all_data /\ page_calls' = page_calls
C27_UnrecognizedEnvelope ==
    [][ C27_Stops' /\ C27_HandledSilently ]_vars

\* The second page had neither key: the call returned the row of page 0.
C27_Witness ==
    /\ fpc = "done" /\ Len(pages) >= 2
    /\ pages[1].shape = "content" /\ pages[1].n = 1 /\ pages[1].last = "false"
    /\ pages[2].shape = "other" /\ response = pages[2]
    /\ page_calls = <<0, 1>>
    /\ result = <<<<0, 1>>>>

----------------------------------------------------------------------------
\* process_csv_file has committed the rows of the file and returned their count
LoadSucceeded == lpc = "returned" /\ record_count > 0
\* the lot of the artifact of the current call: the lot of its first row
ArtifactLot == artifact_log[attempt].rows[1].lot
\* the detail rows the artifact of the current call stands for
ArtifactDetail ==
    LET rows == artifact_log[attempt].rows
    IN  [k \in 1..Len(rows) |->
            [lot_number |-> ArtifactLot,
             master_template_name |-> rows[k].product_name,
             structure_label |-> rows[k].label,
             description |-> rows[k].description,
             input_data_value |-> rows[k].value,
             data_capture_time |-> rows[k].time,
             data_hash |-> <<rows[k].label, "|", rows[k].description, "|",
                             rows[k].value, "|", rows[k].time>>]]
LotsIn(d) == {d.lot_data[k].lot_number : k \in 1..Len(d.lot_data)}

\* C28: after a successful incremental load of an artifact of lot L the
\* lot_data rows of L are exactly the rows of the artifact and the rows of
\* every other lot are as before the load; after a successful initial load
\* every row that was in lot_data before the load is still there, followed by
\* the rows of the artifact.
C28_DeleteScope ==
    LoadSucceeded =>
        IF process_type = "incremental_load"
        THEN /\ LotRows(db, ArtifactLot) = ArtifactDetail
             /\ \A l \in (LotsIn(db) \cup LotsIn(db_before)) \ {ArtifactLot} :
                    SelectSeq(db.lot_data, LAMBDA r : r.lot_number = l)
                      = SelectSeq(db_before.lot_data, LAMBDA r : r.lot_number = l)
        ELSE /\ IsPrefix(db_before.lot_data, db.lot_data)
             /\ Len(db.lot_data) = Len(db_before.lot_data) + Len(ArtifactDetail)
             /\ \A k \in 1..Len(ArtifactDetail) :
                    DetailOf(db.lot_data[Len(db_before.lot_data) + k]) = ArtifactDetail[k]

\* An incremental load replaced the rows of L1 next to a row of L2.
C28_Witness ==
    /\ LoadSucceeded /\ process_type = "incremental_load"
    /\ ArtifactLot = "L1"
    /\ LotRows(db_before, "L1") # <<>>
    /\ LotRows(db_before, "L1") # ArtifactDetail
    /\ LotRows(db_before, "L2") # <<>>
    /\ LotRows(db, "L2") = LotRows(db_before, "L2")

----------------------------------------------------------------------------
\* C29: in bulk_fetch.py and incremental_fetch.py an exception of a page
\* request that is not an HTTP-status, connection or timeout error, or a body
\* that is not JSON, is not retried: the raising attempt is the last attempt of
\* the call, no further page is requested, and once process_record has
\* returned it has appended exactly one entry, (id, None, Fail, text of the
\* exception), without an exception leaving it.
C29_LastAttempt ==
    /\ \A i \in 1..Len(attempts_log) :
        attempts_log[i] = "raise" => (i = Len(attempts_log) /\ fpc = "raised")
    /\ fpc = "raised" =>
        /\ attempts_log # <<>>
        /\ attempts_log[Len(attempts_log)] \in {"raise", "ok"}
        /\ page_calls = [i \in 1..Len(page_calls) |-> i - 1]
C29_OneFailEntry ==
    (fpc = "raised" /\ variant \in {"bulk", "incr"}) =>
        /\ pc = "fetch_record" => Len(tracking_df) = len_at_call
        /\ CallOver =>
            /\ Len(tracking_df) = len_at_call + 1
            /\ tracking_df[Len(tracking_df)]
                 = Entry(production_record_id, NoLot, "Fail", ExcText)
            /\ reqs = <<"data_captures">>
            /\ ~escaped
C29_NonRetryableException ==
    [][ /\ C29_LastAttempt' /\ C29_OneFailEntry'
        /\ fpc = "raised" => UNCHANGED fvars ]_vars

\* The second attempt at the second page raised: the call of the identifier
\* ended with one Fail entry.
C29_Witness ==
    /\ fpc = "raised" /\ CallOver /\ variant = "bulk"
    /\ page_calls = <<0, 1>>
    /\ attempts_log = <<"fail", "raise">>
    /\ Len(tracking_df) = 1 /\ tracking_df[1].reason = ExcText

----------------------------------------------------------------------------
\* The record-id fetch of this start_epoch was made and the source answered
\* every page of it.
FetchSucceeded(start_epoch) ==
    \E k \in 1..Len(fetched) :
        /\ fetched[k].start_epoch = start_epoch
        /\ fetched[k].answer \in {"rows", "empty"}

\* C30: a window whose record-id fetch returned nothing because the page
\* request ran out of retries is not appended to six_hour_windows.csv by
\* main(), and every window in that file is one whose fetch succeeded.
C30_ConsumedOnlyIfFetched ==
    window_csv # <<>> =>
        \A k \in 1..Len(window_csv[1]) : FetchSucceeded(window_csv[1][k].start_epoch)
C30_UnavailableNotConsumed ==
    [][ /\ (wpc = "main" /\ source = "exhausted") => window_csv' = window_csv
        /\ C30_ConsumedOnlyIfFetched' ]_vars

----------------------------------------------------------------------------
\* C31: in bulk_fetch.py and incremental_fetch.py every process_record call
\* that has returned has appended exactly one ledger entry, for its
\* identifier, with status Success or Fail, whatever path it took (empty
\* capture data, both lookups empty, success, exception); while the call is
\* under way it has appended none.
C31_ExactlyOneEntry ==
    (variant \in {"bulk", "incr"} /\ production_record_id # -1) =>
        /\ pc \in RecordPcs => Len(tracking_df) = len_at_call
        /\ CallOver =>
            /\ Len(tracking_df) = len_at_call + 1
            /\ tracking_df[Len(tracking_df)].id = production_record_id
            /\ tracking_df[Len(tracking_df)].status \in {"Success", "Fail"}
            /\ ~escaped

\* The call of the incremental driver ended on the path where both lookups
\* are empty, with its one entry.
C31_Witness ==
    /\ CallOver /\ variant = "incr" /\ Len(tracking_df) = 1
    /\ tracking_df[1] = Entry(production_record_id, lot_number, "Fail",
                              BothEmptyReason("incr"))
    /\ reqs = <<"data_captures", "batch_records", "data_captures_by_lot">>

----------------------------------------------------------------------------
\* C32: the persisted checkpoint only moves forward: whenever the checkpoint
\* file holds a last_processed_id before and after a step, of one run or of
\* consecutive bulk and incremental runs, the later value is not below the
\* earlier one.
C32_CheckpointMonotonic ==
    [][ (ckptFile.kind = "ok" /\ ckptFile'.kind = "ok") =>
            ckptFile'.id >= ckptFile.id ]_vars

----------------------------------------------------------------------------
\* C33: for every --batch_size the command line accepts, the run of
\* bulk_fetch.py terminates; each batch is a non-empty range of at most
\* batch_size consecutive identifiers that starts right after the batch
\* before it and does not pass end_id; save_checkpoint is called after each
\* batch with its last identifier; a run with start_id <= end_id has called
\* process_record for start_id..end_id when it completes, its last batch
\* ending at end_id; a run with start_id > end_id processes nothing and leaves
\* the checkpoint file alone.
C33_Batch ==
    /\ (pc = "loop" /\ pc' = "batch") =>
            /\ batch_ids' = Range(current_batch_start, current_batch_end')
            /\ Len(batch_ids') >= 1 /\ Len(batch_ids') <= batch_size
            /\ current_batch_end' <= end_id
    /\ (pc = "batch" /\ pc' = "loop") =>
            /\ current_batch_start' = current_batch_end + 1
            /\ ckptFile' \in {Checkpoint(current_batch_end), ckptFile, CorruptCheckpoint}
    /\ (pc = "loop" /\ pc' = "done") =>
            IF start_id <= end_id
            THEN calls = Range(start_id, end_id) /\ current_batch_end = end_id
            ELSE calls = <<>> /\ ckptFile = NoCheckpoint
C33_Terminates == <>(pc \in {"done", "aborted"})
C33_BatchingTerminates ==
    /\ [][C33_Batch]_vars
    /\ C33_Terminates

----------------------------------------------------------------------------
\* C34: in every committed state of the database that loader runs reach,
\* the lot_number of each lot_data row is the lot_number of a lots row.
LotNumbers(d) == {r.lot_number : r \in d.lots}
C34_ReferentialIntegrity ==
    \A k \in 1..Len(db.lot_data) : db.lot_data[k].lot_number \in LotNumbers(db)
\* The file L2.csv whose rows name lot L1 has been committed under L1.
C34_Witness ==
    /\ lpc = "returned" /\ record_count > 0
    /\ file_path = "L2.csv" /\ lot_info.lot_number = "L1"
    /\ \E k \in 1..Len(db.lot_data) :
            db.lot_data[k].att = attempt /\ db.lot_data[k].lot_number = "L1"
    /\ "L2" \notin LotNumbers(db)

----------------------------------------------------------------------------
\* C35: in a run of bulk_fetch.py or incremental_fetch.py, between two
\* process_record calls and after the last one, the file <lot_number>.csv of
\* each lot is the merge output of the last identifier of the run logged
\* Success with that lot (no file when there is none): a later identifier of
\* the same lot replaces the file of an earlier one, and both are logged
\* Success.
SuccessesOf(df, lot) ==
    SelectSeq(df, LAMBDA e : e.status = "Success" /\ e.lot = lot)
----------------------------------------------------------------------------
\* C36: in one loader run the files of the scan are passed to
\* process_csv_file one by one, each exactly once, and a run that was not
\* killed ends only when every file of the scan has been passed, whatever
\* failed while an earlier file was loaded.
NoRepeat(listing) ==
    \A i, j \in 1..Len(listing) : listing[i] = listing[j] => i = j
C36_Step ==
    /\ (LoadRunning /\ csv_files' # csv_files) =>
            /\ lpc = "loop" /\ lpc' = "read"
            /\ file_path' = Head(csv_files)
            /\ csv_files' = Tail(csv_files)
    /\ NoRepeat(csv_files')
    /\ (LoadRunning /\ lpc' \in {"idle", "escaped"}) => csv_files' = <<>>
C36_PerArtifactIsolation == [][C36_Step]_vars

====
